---- MODULE Spec2Model ----
(***************************************************************************)
(* Hot-swap supervisor (examples/wlan-swap/src/bin/radio_frontend.rs),     *)
(* FlowgraphController block (loader/flowgraph_controller.rs) and the      *)
(* declarative loader (loader/toml_loader.rs, loader/block_registry.rs).   *)
(***************************************************************************)
EXTENDS Integers, Sequences, FiniteSets, TLC

(* ---------------------------------------------------------------------- *)
(* Bounds of the model                                                     *)
(* ---------------------------------------------------------------------- *)
\* number of external calls to a "control" port
MaxRequests == 2
\* number of times recv_timeout may time out
MaxTimeouts == 1
\* number of messages a block of the graph posts to the controller's rx
MaxRx == 1

(* ---------------------------------------------------------------------- *)
(* Configuration files                                                     *)
(* ---------------------------------------------------------------------- *)
NoDtype == ""
NoPort == ""
\* Option<String>: None, and Some(e)
NoExpr == [some |-> FALSE, e |-> ""]
SomeExpr(e) == [some |-> TRUE, e |-> e]

\* a parameter entry: its name and the kind of toml::Value it holds
Param(n, vtype) == [name |-> n, vtype |-> vtype]
IntParam(n) == Param(n, "integer")
StrParam(n) == Param(n, "string")
FloatParam(n) == Param(n, "float")

Blk(n, t, d, params) ==
    [name |-> n, block_type |-> t, dtype |-> d, optional |-> FALSE,
     parameters |-> params]

Conn(f, fp, t, tp) ==
    [from |-> f, from_port |-> fp, to |-> t, to_port |-> tp,
     conditional |-> NoExpr]

Config(b, c, m) ==
    [readable |-> TRUE, blocks |-> b, connections |-> c,
     message_connections |-> m]

\* a path with no file behind it, or a file that does not parse
Unreadable ==
    [readable |-> FALSE, blocks |-> <<>>, connections |-> <<>>,
     message_connections |-> <<>>]

CtrlBlk == Blk("flowgraph_controller", "FlowgraphController", NoDtype, <<>>)
SrcBlk == Blk("src", "NullSource", "u8", <<>>)
SnkBlk == Blk("snk", "NullSink", NoDtype, <<>>)
WsBlk == Blk("ws", "WebsocketPmtSink", NoDtype, <<IntParam("port")>>)

\* the configuration files the model draws from
Paths == {"ctrl_first.toml", "ctrl_last.toml", "no_ctrl.toml",
          "bad_type.toml", "ws.toml"}

File(path) ==
    CASE path = "ctrl_first.toml" ->
            Config(<<CtrlBlk, SrcBlk, SnkBlk>>,
                   <<Conn("src", NoPort, "snk", NoPort)>>, <<>>)
      [] path = "ctrl_last.toml" ->
            Config(<<SrcBlk, SnkBlk, CtrlBlk>>,
                   <<Conn("src", "output", "snk", "input")>>, <<>>)
      [] path = "no_ctrl.toml" ->
            Config(<<SrcBlk, SnkBlk>>,
                   <<Conn("src", NoPort, "snk", NoPort)>>, <<>>)
      [] path = "bad_type.toml" ->
            Config(<<CtrlBlk, Blk("x", "NoSuchBlock", NoDtype, <<>>)>>,
                   <<>>, <<>>)
      [] path = "ws.toml" ->
            Config(<<CtrlBlk, WsBlk>>, <<>>,
                   <<Conn("flowgraph_controller", "rx_out", "ws", "in")>>)
      [] path = "mismatch.toml" ->
            Config(<<CtrlBlk, Blk("src", "NullSource", "Complex32", <<>>),
                     Blk("snk", "NullSink", "f32", <<>>)>>,
                   <<Conn("src", NoPort, "snk", NoPort)>>, <<>>)
      [] path = "mismatch_2nd.toml" ->
            Config(<<SrcBlk, SnkBlk, Blk("src32", "NullSource", "u32", <<>>),
                     Blk("snkf", "NullSink", "f32", <<>>)>>,
                   <<Conn("src", "output", "snk", "input"),
                     Conn("src32", "output", "snkf", "input")>>, <<>>)
      [] OTHER -> Unreadable

(* ---------------------------------------------------------------------- *)
(* Flowgraph under construction                                            *)
(* ---------------------------------------------------------------------- *)
Kernel(t, d) == [type |-> t, dtype |-> d]

\* Flowgraph::new
NewFlowgraph == [blocks |-> <<>>, stream_edges |-> {}, message_edges |-> {}]

\* Flowgraph::add_block: BlockIds are dense from 0, in order of addition
add_block(fg, kernel) ==
    [fg |-> [fg EXCEPT !.blocks = Append(@, kernel)], id |-> Len(fg.blocks)]

KernelAt(fg, id) == fg.blocks[id + 1]

StreamOutputs(k) ==
    IF k.type \in {"NullSource", "Delay", "Throttle", "FileSource",
                   "wifi::MovingAverage"}
    THEN {"output"} ELSE {}
StreamInputs(k) ==
    IF k.type \in {"NullSink", "Delay", "Throttle", "wifi::MovingAverage"}
    THEN {"input"} ELSE {}

\* #[message_inputs(control, tx, rx)]
MessageInputs(k) ==
    CASE k.type = "FlowgraphController" -> {"control", "tx", "rx"}
      [] k.type = "WebsocketPmtSink" -> {"in"}
      [] OTHER -> {}

\* #[message_outputs(tx_out, rx_out)]
MessageOutputs(k) ==
    IF k.type = "FlowgraphController" THEN {"tx_out", "rx_out"} ELSE {}

\* what an error says: its kind and the two endpoints <<block, port>> it names
NoEndpoint == <<-1, "">>
Error(kind, from, to) == [kind |-> kind, from |-> from, to |-> to]
NoError == Error("", NoEndpoint, NoEndpoint)

\* Flowgraph::connect_dyn: both ports exist and carry the same element type
connect_dyn(fg, from_id, from_port, to_id, to_port) ==
    IF ~(/\ from_port \in StreamOutputs(KernelAt(fg, from_id))
         /\ to_port \in StreamInputs(KernelAt(fg, to_id)))
    THEN [ok |-> FALSE, fg |-> fg,
          err |-> Error("invalid stream port", <<from_id, from_port>>,
                        <<to_id, to_port>>)]
    ELSE IF KernelAt(fg, from_id).dtype # KernelAt(fg, to_id).dtype
    THEN [ok |-> FALSE, fg |-> fg,
          err |-> Error("type mismatch", <<from_id, from_port>>,
                        <<to_id, to_port>>)]
    ELSE [ok |-> TRUE,
          fg |-> [fg EXCEPT !.stream_edges =
                      @ \cup {<<from_id, from_port, to_id, to_port>>}],
          err |-> NoError]

\* Flowgraph::connect_message
connect_message(fg, from_id, from_port, to_id, to_port) ==
    IF /\ from_port \in MessageOutputs(KernelAt(fg, from_id))
       /\ to_port \in MessageInputs(KernelAt(fg, to_id))
    THEN [ok |-> TRUE,
          fg |-> [fg EXCEPT !.message_edges =
                      @ \cup {<<from_id, from_port, to_id, to_port>>}],
          err |-> NoError]
    ELSE [ok |-> FALSE, fg |-> fg,
          err |-> Error("invalid message port", <<from_id, from_port>>,
                        <<to_id, to_port>>)]

(* ---------------------------------------------------------------------- *)
(* Block registry                                                          *)
(* ---------------------------------------------------------------------- *)
\* BlockRegistry::new: the registered type keys that the model's files use
Registry ==
    {"FlowgraphController", "NullSource", "NullSink", "WebsocketPmtSink",
     "Delay", "Throttle", "FileSource", "wifi::MovingAverage",
     "zigbee::Decoder", "zigbee::ClockRecoveryMm"}

SupportedDtypes == {"u8", "u32", "f32", "Complex32"}

\* the element types Delay, Throttle and FileSource dispatch on
DelayDtypes == {"Complex32", "f32", "u8"}

\* the errors of the registry; each names what it is about
NoFactoryError(block_type) ==
    Error("No factory registered for block type", <<-1, block_type>>,
          NoEndpoint)
ParamError(name) ==
    Error("Parameter not found or invalid", <<-1, name>>, NoEndpoint)
DtypeError(block, dtype) ==
    Error("Unsupported dtype for " \o block, <<-1, dtype>>, NoEndpoint)

\* params.iter().find(|p| p.name == name): the first parameter of that name
\* holds a value of the type vtype
ParamIs(params, name, vtype) ==
    LET hits == {i \in 1..Len(params) : params[i].name = name}
    IN  /\ hits # {}
        /\ LET first == CHOOSE i \in hits : \A j \in hits : i <= j
           IN  params[first].vtype = vtype

\* get_param_u32: the first parameter of that name, which must be an integer
get_param_u32(params, name) == ParamIs(params, name, "integer")

\* get_param_f32 that takes the value of any parameter of that name
get_param_f32_any(params, name) ==
    \E i \in 1..Len(params) : params[i].name = name

\* get_param_f32: the first parameter of that name, which must be a float
get_param_f32(params, name) == ParamIs(params, name, "float")

\* get_param_f64
get_param_f64(params, name) == ParamIs(params, name, "float")

\* get_param_string
get_param_string(params, name) == ParamIs(params, name, "string")

FactoryFail(fg, err) == [ok |-> FALSE, fg |-> fg, id |-> 0, err |-> err]
FactoryOk(r) == [ok |-> TRUE, fg |-> r.fg, id |-> r.id, err |-> NoError]

\* Option::unwrap_or on an optional string
unwrap_or(opt, default) == IF opt = "" THEN default ELSE opt

\* FlowgraphControllerFactory::create
FlowgraphControllerFactory(fg, config) ==
    FactoryOk(add_block(fg, Kernel("FlowgraphController", NoDtype)))

\* NullSourceFactory::create
NullSourceFactory(fg, config) ==
    LET dtype == IF config.dtype = NoDtype THEN "u8" ELSE config.dtype
    IN  IF dtype \in SupportedDtypes
        THEN FactoryOk(add_block(fg, Kernel("NullSource", dtype)))
        ELSE FactoryFail(fg, DtypeError("NullSource", dtype))

\* NullSinkFactory::create
NullSinkFactory(fg, config) ==
    LET dtype == IF config.dtype = NoDtype THEN "u8" ELSE config.dtype
    IN  IF dtype \in SupportedDtypes
        THEN FactoryOk(add_block(fg, Kernel("NullSink", dtype)))
        ELSE FactoryFail(fg, DtypeError("NullSink", dtype))

\* WebsocketPmtSinkFactory::create
WebsocketPmtSinkFactory(fg, config) ==
    IF get_param_u32(config.parameters, "port")
    THEN FactoryOk(add_block(fg, Kernel("WebsocketPmtSink", NoDtype)))
    ELSE FactoryFail(fg, ParamError("port"))

\* DelayFactory::create
DelayFactory(fg, config) ==
    IF ~get_param_u32(config.parameters, "delay")
    THEN FactoryFail(fg, ParamError("delay"))
    ELSE LET dtype == unwrap_or(config.dtype, "Complex32")
         IN  IF dtype \in DelayDtypes
             THEN FactoryOk(add_block(fg, Kernel("Delay", dtype)))
             ELSE FactoryFail(fg, DtypeError("Delay", dtype))

\* ThrottleFactory::create
ThrottleFactory(fg, config) ==
    IF ~get_param_f64(config.parameters, "rate")
    THEN FactoryFail(fg, ParamError("rate"))
    ELSE LET dtype == unwrap_or(config.dtype, "Complex32")
         IN  IF dtype \in DelayDtypes
             THEN FactoryOk(add_block(fg, Kernel("Throttle", dtype)))
             ELSE FactoryFail(fg, DtypeError("Throttle", dtype))

\* FileSourceFactory::create
FileSourceFactory(fg, config) ==
    IF ~ParamIs(config.parameters, "path", "string")
    THEN FactoryFail(fg, Error("FileSource requires parameter",
                               <<-1, "path">>, NoEndpoint))
    ELSE LET dtype == unwrap_or(config.dtype, "Complex32")
         IN  IF dtype \in DelayDtypes
             THEN FactoryOk(add_block(fg, Kernel("FileSource", dtype)))
             ELSE FactoryFail(fg, DtypeError("FileSource", dtype))

\* WifiMovingAverageFactory::create: the arm `"f32" | _` takes every dtype
\* that is not "Complex32"
WifiMovingAverageFactory(fg, config) ==
    IF ~get_param_u32(config.parameters, "length")
    THEN FactoryFail(fg, ParamError("length"))
    ELSE LET dtype == unwrap_or(config.dtype, "f32")
         IN  IF dtype = "Complex32"
             THEN FactoryOk(add_block(fg,
                      Kernel("wifi::MovingAverage", "Complex32")))
             ELSE FactoryOk(add_block(fg, Kernel("wifi::MovingAverage", "f32")))

\* DecoderFactory::create
DecoderFactory(fg, config) ==
    IF get_param_u32(config.parameters, "threshold")
    THEN FactoryOk(add_block(fg, Kernel("zigbee::Decoder", NoDtype)))
    ELSE FactoryFail(fg, ParamError("threshold"))

\* the parameters ClockRecoveryMmFactory::create reads, in its order
ClockRecoveryMmParams ==
    <<"omega", "gain_omega", "mu", "gain_mu", "omega_relative_limit">>

\* ClockRecoveryMmFactory::create: the first `?` that fails returns
ClockRecoveryMmFactory(fg, config) ==
    LET failing == {i \in 1..Len(ClockRecoveryMmParams) :
                        ~get_param_f32(config.parameters,
                                       ClockRecoveryMmParams[i])}
    IN  IF failing = {}
        THEN FactoryOk(add_block(fg, Kernel("zigbee::ClockRecoveryMm", NoDtype)))
        ELSE FactoryFail(fg,
                 ParamError(ClockRecoveryMmParams[
                     CHOOSE i \in failing : \A j \in failing : i <= j]))

\* factory.create(fg, config) of the factory registered for the type
create(fg, config) ==
    CASE config.block_type = "FlowgraphController" ->
             FlowgraphControllerFactory(fg, config)
      [] config.block_type = "NullSource" -> NullSourceFactory(fg, config)
      [] config.block_type = "NullSink" -> NullSinkFactory(fg, config)
      [] config.block_type = "WebsocketPmtSink" ->
             WebsocketPmtSinkFactory(fg, config)
      [] config.block_type = "Delay" -> DelayFactory(fg, config)
      [] config.block_type = "Throttle" -> ThrottleFactory(fg, config)
      [] config.block_type = "FileSource" -> FileSourceFactory(fg, config)
      [] config.block_type = "wifi::MovingAverage" ->
             WifiMovingAverageFactory(fg, config)
      [] config.block_type = "zigbee::Decoder" -> DecoderFactory(fg, config)
      [] config.block_type = "zigbee::ClockRecoveryMm" ->
             ClockRecoveryMmFactory(fg, config)

\* create_block that stands a placeholder in for a type without a factory
create_block_placeholder(fg, config) ==
    IF config.block_type \notin Registry
    THEN FactoryOk(add_block(fg, Kernel(config.block_type, NoDtype)))
    ELSE create(fg, config)

\* BlockRegistry::create_block
create_block(fg, config) ==
    IF config.block_type \notin Registry
    THEN FactoryFail(fg, NoFactoryError(config.block_type))
    ELSE create(fg, config)

(* ---------------------------------------------------------------------- *)
(* Loader                                                                  *)
(* ---------------------------------------------------------------------- *)
\* an insert that drops the entries the map held
MapInsert_Replace(m, k, v) == [n \in {k} |-> v]

\* HashMap::insert on the name -> BlockId map
MapInsert(m, k, v) ==
    [n \in DOMAIN m \cup {k} |-> IF n = k THEN v ELSE m[n]]

EmptyMap == [n \in {} |-> 0]

\* the strings that occur as names of blocks and conditions; a string of
\* the model that begins with '!' is one of them behind one or two '!'
Names == {"src", "snk", "aux", "feature", "flowgraph_controller", "ws", "x",
          "ghost"}

\* str::strip_prefix('!'): the rest of e after a leading '!', if e has one
strip_prefix(e) ==
    LET rest == {n \in Names \cup {"!" \o m : m \in Names} : "!" \o n = e}
    IN  IF rest = {} THEN NoExpr ELSE SomeExpr(CHOOSE n \in rest : TRUE)

\* HashMap::get(..).copied().unwrap_or(false) on the condition map
condition(conditions, name) ==
    IF name \in DOMAIN conditions THEN conditions[name] ELSE FALSE

\* eval_condition that looks the whole expression up, '!' included
eval_condition_no_negation(conditions, expr) ==
    IF ~expr.some THEN TRUE ELSE condition(conditions, expr.e)

\* FlowgraphLoader::eval_condition
eval_condition(conditions, expr) ==
    IF ~expr.some
    THEN TRUE
    ELSE LET name == strip_prefix(expr.e)
         IN  IF name.some
             THEN ~condition(conditions, name.e)
             ELSE condition(conditions, expr.e)

\* a `let` binding: v is evaluated once and F is applied to its value
Let(v, F(_)) == CHOOSE out \in {F(x) : x \in {v}} : TRUE

\* the state a build carries: the flowgraph, the loader's block_map, and
\* whether an error has been returned
BuildState(fg, m, ok) ==
    [ok |-> ok, fg |-> fg, block_map |-> m, err |-> NoError]

\* the build returns the error err
BuildFail(fg, m, err) ==
    [ok |-> FALSE, fg |-> fg, block_map |-> m, err |-> err]

\* lines 217-222 without the guard: every entry is instantiated
BuildBlock_NoGuard(st, block_cfg, conditions) ==
    LET r == create_block(st.fg, block_cfg)
    IN  IF ~r.ok
        THEN BuildFail(r.fg, st.block_map, r.err)
        ELSE BuildState(r.fg, MapInsert(st.block_map, block_cfg.name, r.id),
                        TRUE)

\* FlowgraphLoader::build, lines 217-222: one block entry; the guard of an
\* optional block is its own name, read as a condition expression
BuildBlock(st, block_cfg, conditions) ==
    IF block_cfg.optional
       /\ ~eval_condition(conditions, SomeExpr(block_cfg.name))
    THEN st
    ELSE LET r == create_block(st.fg, block_cfg)
         IN  IF ~r.ok
             THEN BuildFail(r.fg, st.block_map, r.err)
             ELSE BuildState(r.fg,
                             MapInsert(st.block_map, block_cfg.name, r.id),
                             TRUE)

\* FlowgraphLoader::build, step 1, from block entry i on
RECURSIVE BuildBlocks(_, _, _, _)
BuildBlocks(config, conditions, i, st) ==
    IF i > Len(config.blocks)
    THEN st
    ELSE Let(BuildBlock(st, config.blocks[i], conditions),
             LAMBDA next :
                 IF ~next.ok
                 THEN next
                 ELSE BuildBlocks(config, conditions, i + 1, next))

\* the ports of a stream connection with both defaults the other way round
StreamPorts_Swapped(conn) ==
    <<unwrap_or(conn.from_port, "input"), unwrap_or(conn.to_port, "output")>>

\* lines 236-237: the ports of a stream connection
StreamPorts(conn) ==
    <<unwrap_or(conn.from_port, "output"), unwrap_or(conn.to_port, "input")>>

\* lines 230-239 with `let _ = fg.connect_dyn(..)`: the error is dropped
ConnectStream_IgnoreErr(st, conn) ==
    IF conn.from \notin DOMAIN st.block_map
    THEN BuildFail(st.fg, st.block_map,
                   Error("Source block not found", <<-1, conn.from>>,
                         NoEndpoint))
    ELSE IF conn.to \notin DOMAIN st.block_map
    THEN BuildFail(st.fg, st.block_map,
                   Error("Destination block not found", NoEndpoint,
                         <<-1, conn.to>>))
    ELSE LET from_port == StreamPorts(conn)[1]
             to_port == StreamPorts(conn)[2]
             r == connect_dyn(st.fg, st.block_map[conn.from], from_port,
                              st.block_map[conn.to], to_port)
         IN  BuildState(r.fg, st.block_map, TRUE)

\* FlowgraphLoader::build, lines 230-239: one stream connection
ConnectStream(st, conn) ==
    IF conn.from \notin DOMAIN st.block_map
    THEN BuildFail(st.fg, st.block_map,
                   Error("Source block not found", <<-1, conn.from>>,
                         NoEndpoint))
    ELSE IF conn.to \notin DOMAIN st.block_map
    THEN BuildFail(st.fg, st.block_map,
                   Error("Destination block not found", NoEndpoint,
                         <<-1, conn.to>>))
    ELSE LET from_port == StreamPorts(conn)[1]
             to_port == StreamPorts(conn)[2]
             r == connect_dyn(st.fg, st.block_map[conn.from], from_port,
                              st.block_map[conn.to], to_port)
         IN  IF ~r.ok
             THEN BuildFail(r.fg, st.block_map, r.err)
             ELSE BuildState(r.fg, st.block_map, TRUE)

\* FlowgraphLoader::build, step 2, from connection i on
RECURSIVE BuildConnections(_, _, _, _)
BuildConnections(config, conditions, i, st) ==
    IF i > Len(config.connections)
    THEN st
    ELSE LET conn == config.connections[i]
         IN  IF ~eval_condition(conditions, conn.conditional)
             THEN BuildConnections(config, conditions, i + 1, st)
             ELSE Let(ConnectStream(st, conn),
                      LAMBDA next :
                          IF ~next.ok
                          THEN next
                          ELSE BuildConnections(config, conditions, i + 1,
                                                next))

\* the destination port of a message connection, defaulting to "in"
MessageToPort_In(msg_conn) == unwrap_or(msg_conn.to_port, "in")

\* line 257: the destination port of a message connection
MessageToPort(msg_conn) == unwrap_or(msg_conn.to_port, msg_conn.from_port)

\* lines 248-257 with a connection of unknown blocks passed over
ConnectMessage_SkipUnknown(st, msg_conn) ==
    IF msg_conn.from \notin DOMAIN st.block_map
       \/ msg_conn.to \notin DOMAIN st.block_map
    THEN st
    ELSE LET r == connect_message(st.fg, st.block_map[msg_conn.from],
                                  msg_conn.from_port,
                                  st.block_map[msg_conn.to],
                                  MessageToPort(msg_conn))
         IN  IF ~r.ok
             THEN BuildFail(r.fg, st.block_map, r.err)
             ELSE BuildState(r.fg, st.block_map, TRUE)

\* FlowgraphLoader::build, lines 248-257: one message connection
ConnectMessage(st, msg_conn) ==
    IF msg_conn.from \notin DOMAIN st.block_map
    THEN BuildFail(st.fg, st.block_map,
                   Error("Source block not found", <<-1, msg_conn.from>>,
                         NoEndpoint))
    ELSE IF msg_conn.to \notin DOMAIN st.block_map
    THEN BuildFail(st.fg, st.block_map,
                   Error("Destination block not found", NoEndpoint,
                         <<-1, msg_conn.to>>))
    ELSE LET r == connect_message(st.fg, st.block_map[msg_conn.from],
                                  msg_conn.from_port,
                                  st.block_map[msg_conn.to],
                                  MessageToPort(msg_conn))
         IN  IF ~r.ok
             THEN BuildFail(r.fg, st.block_map, r.err)
             ELSE BuildState(r.fg, st.block_map, TRUE)

\* FlowgraphLoader::build, step 3, from message connection i on
RECURSIVE BuildMessageConnections(_, _, _, _)
BuildMessageConnections(config, conditions, i, st) ==
    IF i > Len(config.message_connections)
    THEN st
    ELSE LET msg_conn == config.message_connections[i]
         IN  IF ~eval_condition(conditions, msg_conn.conditional)
             THEN BuildMessageConnections(config, conditions, i + 1, st)
             ELSE Let(ConnectMessage(st, msg_conn),
                      LAMBDA next :
                          IF ~next.ok
                          THEN next
                          ELSE BuildMessageConnections(config, conditions,
                                                       i + 1, next))

\* FlowgraphLoader::build
build(config, conditions, fg) ==
    Let(BuildBlocks(config, conditions, 1, BuildState(fg, EmptyMap, TRUE)),
        LAMBDA s1 :
            IF ~s1.ok
            THEN s1
            ELSE Let(BuildConnections(config, conditions, 1, s1),
                     LAMBDA s2 :
                         IF ~s2.ok
                         THEN s2
                         ELSE BuildMessageConnections(config, conditions, 1,
                                                      s2)))

\* no flowgraph and no loader: nothing has been loaded, or what was loaded
\* has been moved out or dropped
LoadErr == BuildState(NewFlowgraph, EmptyMap, FALSE)

\* load_config with the build error swallowed: the flowgraph built so far is
\* returned as if the build had succeeded
load_config_partial(config) ==
    IF ~config.readable
    THEN LoadErr
    ELSE [build(config, EmptyMap, NewFlowgraph) EXCEPT !.ok = TRUE]

\* load_flowgraph_with_loader on a parsed configuration: from_str leaves the
\* condition map empty, `loader.build(&mut fg)?` drops fg on an error
load_config(config) ==
    IF ~config.readable
    THEN BuildFail(NewFlowgraph, EmptyMap,
                   Error("read config", NoEndpoint, NoEndpoint))
    ELSE Let(build(config, EmptyMap, NewFlowgraph),
             LAMBDA r :
                 IF r.ok THEN r ELSE BuildFail(NewFlowgraph, EmptyMap, r.err))

\* load_flowgraph_with_loader
load_flowgraph_with_loader(path) == load_config(File(path))

\* FlowgraphLoader::get_block; -1 stands for None
get_block(block_map, name) ==
    IF name \in DOMAIN block_map THEN block_map[name] ELSE -1

(* ---------------------------------------------------------------------- *)
(* PMT values                                                              *)
(* ---------------------------------------------------------------------- *)
Pmt(tag, val) == [tag |-> tag, val |-> val]
PmtOk == Pmt("Ok", "")
PmtNull == Pmt("Null", "")
PmtString(s) == Pmt("String", s)
PmtBlob(s) == Pmt("Blob", s)
PmtF64(s) == Pmt("F64", s)

\* blobs that are not valid UTF-8
InvalidUtf8 == {"<ff>"}

\* String::from_utf8_lossy: invalid sequences become U+FFFD
from_utf8_lossy(s) == IF s \in InvalidUtf8 THEN "<fffd>" ELSE s

\* format!("{:?}", e) of the error of a failed post
PostError == "InvalidMessagePort"

\* format!("{:?}", ..) of a string or of a PMT
DebugStr(s) == "\"" \o s \o "\""
DebugPmt(p) ==
    CASE p.tag \in {"Ok", "Null"} -> p.tag
      [] p.tag = "String" -> "String(" \o DebugStr(p.val) \o ")"
      [] OTHER -> p.tag \o "(" \o p.val \o ")"

(* ---------------------------------------------------------------------- *)
(* The Per block of zigbee/per.rs                                          *)
(* ---------------------------------------------------------------------- *)
\* one decimal digit
Digit(d) ==
    CASE d = 0 -> "0" [] d = 1 -> "1" [] d = 2 -> "2" [] d = 3 -> "3"
      [] d = 4 -> "4" [] d = 5 -> "5" [] d = 6 -> "6" [] d = 7 -> "7"
      [] d = 8 -> "8" [] d = 9 -> "9"

\* u32::to_string, u64::to_string: the decimal digits of n
RECURSIVE to_string(_)
to_string(n) ==
    IF n < 10 THEN Digit(n) ELSE to_string(n \div 10) \o Digit(n % 10)

\* format!("{}", x) of an f64 that holds a whole number: no fraction is
\* written, a minus sign is
DisplayF64(x) == IF x < 0 THEN "-" \o to_string(-x) ELSE to_string(x)

\* format!("{:0w$}", n): n in decimal, filled with zeros up to width w
RECURSIVE Pow10(_)
Pow10(w) == IF w = 0 THEN 1 ELSE 10 * Pow10(w - 1)
RECURSIVE ZeroPad(_, _)
ZeroPad(n, w) ==
    IF w <= 1 \/ n >= Pow10(w - 1)
    THEN to_string(n)
    ELSE "0" \o ZeroPad(n, w - 1)

\* `x as u32` of an f64 that holds a whole number: the cast saturates, a
\* negative number becomes 0; the gains of the model stay far below 2^32
as_u32(x) == IF x < 0 THEN 0 ELSE x

\* PerConfig; the gains are whole numbers of dB, packet_interval_ms only
\* sets the length of the timer in work
PerConfig(gain_start, gain_end, gain_step, packets_per_gain) ==
    [gain_start |-> gain_start, gain_end |-> gain_end,
     gain_step |-> gain_step, packets_per_gain |-> packets_per_gain]

\* Per::with_config
with_config(config) ==
    [config |-> config, state |-> "Idle", current_gain |-> config.gain_start,
     packets_sent_at_current_gain |-> 0, total_packets_sent |-> 0]

\* #[message_outputs(tx, gain, status)]
PerOutputs == {"tx", "gain", "status"}

\* MessageOutputs::post from a handler of Per: the message is queued on the
\* port; a name that is no output of the block is an error
post(posts, port, p) ==
    IF port \in PerOutputs
    THEN [ok |-> TRUE, posts |-> Append(posts, [port |-> port, p |-> p])]
    ELSE [ok |-> FALSE, posts |-> posts]

\* a label that holds the sequence number where the gain belongs
format_message_seq_first(self, seq) ==
    "load" \o ZeroPad(seq, 2) \o ZeroPad(as_u32(self.current_gain), 4)

\* Per::format_message, as a string of the bytes
format_message(self, seq) ==
    "load" \o ZeroPad(as_u32(self.current_gain), 2) \o ZeroPad(seq, 4)

\* what a handler of Per hands back: the block, the messages it posted,
\* whether it called io.notify_work, whether it set io.finished, and its
\* Result: ok with the reply of a message handler, or the error of a post
PerReturn(self, posts, notify, finished, ok, reply) ==
    [self |-> self, posts |-> posts, notify |-> notify,
     finished |-> finished, ok |-> ok, reply |-> reply]

\* a start that resumes the sweep where the stop left it
PerStart_Resume(self) ==
    IF self.state # "Idle"
    THEN PerReturn(self, <<>>, FALSE, FALSE, TRUE, PmtOk)
    ELSE LET started == [self EXCEPT !.state = "Running"]
             p1 == post(<<>>, "gain", PmtF64(DisplayF64(started.current_gain)))
             p2 == post(p1.posts, "status",
                        PmtString("started:gain="
                                  \o DisplayF64(started.current_gain)))
         IN  PerReturn(started, p2.posts, TRUE, FALSE, TRUE, PmtOk)

\* lines 121-141 and 161-173: the start of a sweep
PerStart(self) ==
    IF self.state # "Idle"
    THEN PerReturn(self, <<>>, FALSE, FALSE, TRUE, PmtOk)
    ELSE LET started == [self EXCEPT
                             !.current_gain = self.config.gain_start,
                             !.packets_sent_at_current_gain = 0,
                             !.total_packets_sent = 0,
                             !.state = "Running"]
             p1 == post(<<>>, "gain", PmtF64(DisplayF64(started.current_gain)))
             p2 == post(p1.posts, "status",
                        PmtString("started:gain="
                                  \o DisplayF64(started.current_gain)))
         IN  IF ~p1.ok
             THEN PerReturn(started, p1.posts, FALSE, FALSE, FALSE, PmtNull)
             ELSE IF ~p2.ok
             THEN PerReturn(started, p2.posts, FALSE, FALSE, FALSE, PmtNull)
             ELSE PerReturn(started, p2.posts, TRUE, FALSE, TRUE, PmtOk)

\* lines 144-148: the stop of a sweep
PerStop(self) ==
    IF self.state # "Running"
    THEN PerReturn(self, <<>>, FALSE, FALSE, TRUE, PmtOk)
    ELSE LET stopped == [self EXCEPT !.state = "Idle"]
             p1 == post(<<>>, "status", PmtString("stopped"))
         IN  IF ~p1.ok
             THEN PerReturn(stopped, p1.posts, FALSE, FALSE, FALSE, PmtNull)
             ELSE PerReturn(stopped, p1.posts, FALSE, FALSE, TRUE, PmtOk)

\* lines 151-157: the reply to "status"
PerStatus(self) ==
    PmtString("state=" \o self.state
              \o ", gain=" \o DisplayF64(self.current_gain)
              \o ", packets_at_gain="
              \o to_string(self.packets_sent_at_current_gain)
              \o "/" \o to_string(self.config.packets_per_gain)
              \o ", total=" \o to_string(self.total_packets_sent))

\* ctrl that starts a sweep from any state but Running
ctrl_restart(self, p) ==
    CASE p = PmtString("start") \/ p = PmtNull ->
             IF self.state = "Running"
             THEN PerStart(self)
             ELSE PerStart([self EXCEPT !.state = "Idle"])
      [] p = PmtString("stop") -> PerStop(self)
      [] p = PmtString("status") ->
             PerReturn(self, <<>>, FALSE, FALSE, TRUE, PerStatus(self))
      [] OTHER -> PerReturn(self, <<>>, FALSE, FALSE, TRUE, PmtOk)

\* Per::ctrl
ctrl(self, p) ==
    CASE p = PmtString("start") -> PerStart(self)
      [] p = PmtString("stop") -> PerStop(self)
      [] p = PmtString("status") ->
             PerReturn(self, <<>>, FALSE, FALSE, TRUE, PerStatus(self))
      [] p = PmtNull -> PerStart(self)
      [] OTHER -> PerReturn(self, <<>>, FALSE, FALSE, TRUE, PmtOk)

\* lines 208-227 with the gain message of the new level left out
NextLevel_Silent(sent) ==
    IF sent.packets_sent_at_current_gain < sent.config.packets_per_gain
    THEN PerReturn(sent, <<>>, TRUE, FALSE, TRUE, PmtNull)
    ELSE LET stepped == [sent EXCEPT
                             !.current_gain = @ - sent.config.gain_step,
                             !.packets_sent_at_current_gain = 0]
         IN  IF stepped.current_gain < stepped.config.gain_end
             THEN PerReturn([stepped EXCEPT !.state = "Finished"],
                            <<[port |-> "status",
                               p |-> PmtString("finished:total="
                                   \o to_string(stepped.total_packets_sent))]>>,
                            FALSE, TRUE, TRUE, PmtNull)
             ELSE PerReturn(stepped, <<>>, TRUE, FALSE, TRUE, PmtNull)

\* Per::work, lines 208-242: the step to the next gain level once the
\* packets of this level are sent, and the request to be woken again
NextLevel(sent) ==
    IF sent.packets_sent_at_current_gain < sent.config.packets_per_gain
    THEN PerReturn(sent, <<>>, TRUE, FALSE, TRUE, PmtNull)
    ELSE LET stepped == [sent EXCEPT
                             !.current_gain = @ - sent.config.gain_step,
                             !.packets_sent_at_current_gain = 0]
         IN  IF stepped.current_gain < stepped.config.gain_end
             THEN LET finished == [stepped EXCEPT !.state = "Finished"]
                      p1 == post(<<>>, "status",
                                 PmtString("finished:total="
                                     \o to_string(finished.total_packets_sent)))
                  IN  IF ~p1.ok
                      THEN PerReturn(finished, p1.posts, FALSE, FALSE, FALSE,
                                     PmtNull)
                      ELSE PerReturn(finished, p1.posts, FALSE, TRUE, TRUE,
                                     PmtNull)
             ELSE LET p1 == post(<<>>, "gain",
                                 PmtF64(DisplayF64(stepped.current_gain)))
                      p2 == post(p1.posts, "status",
                                 PmtString("gain_changed:gain="
                                     \o DisplayF64(stepped.current_gain)))
                  IN  IF ~p1.ok
                      THEN PerReturn(stepped, p1.posts, FALSE, FALSE, FALSE,
                                     PmtNull)
                      ELSE IF ~p2.ok
                      THEN PerReturn(stepped, p2.posts, FALSE, FALSE, FALSE,
                                     PmtNull)
                      ELSE PerReturn(stepped, p2.posts, TRUE, FALSE, TRUE,
                                     PmtNull)

\* work that keeps sending while the sweep is stopped
work_always(self) ==
    LET p0 == post(<<>>, "tx",
                   PmtBlob(format_message(self,
                                          self.packets_sent_at_current_gain)))
        sent == [self EXCEPT !.packets_sent_at_current_gain = @ + 1,
                             !.total_packets_sent = @ + 1]
        r == NextLevel(sent)
    IN  IF self.state = "Finished"
        THEN PerReturn(self, <<>>, FALSE, FALSE, TRUE, PmtNull)
        ELSE [r EXCEPT !.posts = p0.posts \o r.posts]

\* Per::work (Kernel for Per)
work(self) ==
    IF self.state # "Running"
    THEN PerReturn(self, <<>>, FALSE, FALSE, TRUE, PmtNull)
    ELSE LET p0 == post(<<>>, "tx",
                        PmtBlob(format_message(self,
                                    self.packets_sent_at_current_gain)))
             sent == [self EXCEPT !.packets_sent_at_current_gain = @ + 1,
                                  !.total_packets_sent = @ + 1]
             r == NextLevel(sent)
         IN  IF ~p0.ok
             THEN PerReturn(self, p0.posts, FALSE, FALSE, FALSE, PmtNull)
             ELSE [r EXCEPT !.posts = p0.posts \o r.posts]

(* ---------------------------------------------------------------------- *)
(* State                                                                   *)
(* ---------------------------------------------------------------------- *)
VARIABLES
    pc,             \* position of the listener thread in its loop
    current_file,   \* radio_frontend.rs:57
    fg_handle_opt,  \* radio_frontend.rs:58, 0 is None, else a flowgraph id
    old_handle,     \* radio_frontend.rs:64, the handle being terminated
    loaded,         \* radio_frontend.rs:76, (fg, loader) of the last load
    new_fg_handle,  \* radio_frontend.rs:87, 0 before start_sync returned
    rt_graphs,      \* the flowgraphs the Runtime has started, by id
    reload_queue,   \* messages in flight on the mpsc reload channel
    reload_senders, \* live Sender<String> of the reload channel
    gain_channel_set, \* GAIN_CHANNEL holds a sender
    rx_out,         \* per flowgraph, the posts on the controller's rx_out
    last_call,      \* the last completed external call
    last_recv,      \* outcome of the last recv_timeout
    last_request,   \* the last path received from the reload channel
    notified,       \* flowgraphs for which line 101 was executed
    terminated_on,  \* per flowgraph, the last_recv under which it was terminated
    nrequests, ntimeouts, nrx,
    control_file,   \* flowgraph_manager.rs:9, contents of .flowgraph_control
    accepted,       \* the paths sent on the reload channel with reply Ok
    switched,       \* the paths the listener thread received, in order
    RELOAD_CHANNEL, \* flowgraph_controller.rs:11, 0 is an empty OnceLock
    channels,       \* the mpsc channels created, by id
    poisoned,       \* the Mutex around the stored sender is poisoned
    mio,            \* per message output of a controller, the values posted
    handled,        \* the last message a controller handler was given
    ncalls, nsets,
    ring,           \* the ring buffer of one stream edge of a started flowgraph
    committed,      \* the elements the producer of that edge committed
    observed,       \* the elements the consumer of that edge read
    edge_tasks,     \* the tasks of the two blocks of the edge still alive
    edge_terminating, \* the terminating flag of that flowgraph
    waiter,         \* the caller of terminate_and_wait on its handle
    edge_call,      \* the last call on its handle
    pending_at_terminate, \* elements in the ring when terminate was issued
    loader,         \* a FlowgraphLoader and the flowgraph it builds into
    answer,         \* what the last query of that loader returned
    factory_call,   \* the last create_block on a BlockRegistry
    per,            \* the fields of one Per block
    per_io,         \* its block task: the messages posted, WorkIo, the last call
    periodic,       \* the periodic sender of load_zigbee_trx.rs and its target
    GAIN_CHANNEL    \* flowgraph_controller.rs:14, 0 is an empty OnceLock

\* the state of the listener thread and of the flowgraphs it runs
sup_vars == <<pc, current_file, fg_handle_opt, old_handle, loaded,
              new_fg_handle, rt_graphs, reload_queue, reload_senders,
              gain_channel_set, rx_out, last_call, last_recv, last_request,
              notified, terminated_on, nrequests, ntimeouts, nrx>>

\* the two histories of the reload channel
log_vars == <<accepted, switched>>

\* the statics of flowgraph_controller.rs and one controller block
handler_vars == <<RELOAD_CHANNEL, channels, poisoned, mio, handled, ncalls,
                  nsets>>

\* one stream edge, its two block tasks and the handle of their flowgraph
edge_vars == <<ring, committed, observed, edge_tasks, edge_terminating,
               waiter, edge_call, pending_at_terminate>>

loader_vars == <<loader, answer, factory_call>>

\* one Per block and its task
per_vars == <<per, per_io>>

\* the blocks and statics outside radio_frontend.rs
block_vars == <<per_vars, periodic, GAIN_CHANNEL>>

vars == <<sup_vars, control_file, log_vars, handler_vars, edge_vars,
          loader_vars, block_vars>>

\* the control file and the statics of flowgraph_controller.rs are set
\* before the listener thread is spawned; nothing below touches them
StaticsUnchanged ==
    UNCHANGED <<control_file, handler_vars, edge_vars, loader_vars, block_vars>>

NoCall == [fg |-> 0, block |-> 0, port |-> "", handled |-> FALSE,
           reply |-> PmtNull]

\* a started flowgraph: the frozen graph, the termination flag and the block
\* tasks that have not exited
Started(path, fg) ==
    [file |-> path, fg |-> fg, terminating |-> FALSE,
     tasks |-> 0..(Len(fg.blocks) - 1)]

\* the Runtime's record of a flowgraph whose tasks have all exited and whose
\* handle the listener thread has dropped
Gone == [file |-> "", fg |-> NewFlowgraph, terminating |-> TRUE, tasks |-> {}]

GraphIds == 1..Len(rt_graphs)
Running(g) == rt_graphs[g].tasks # {}

\* the contents of the control file after line 38: the path in initial_file
InitialFile == "initial_file"

\* an mpsc channel: the messages in flight and whether its Receiver exists
Channel == [queue |-> <<>>, receiver_alive |-> TRUE]

\* MessageOutputs of a controller: nothing posted yet
NoPosts == [tx_out |-> <<>>, rx_out |-> <<>>]

NoMessage == [port |-> "", p |-> PmtNull, reply |-> PmtNull, sent |-> <<>>,
              posts |-> <<>>, post_ok |-> TRUE, nsets |-> 0]

\* number of slots of a ring buffer
RingCap == 2

\* a ring buffer nothing was written to: the slots, the write and read
\* positions, the number of readable elements, the producer's end mark
EmptyRing ==
    [buf |-> [i \in 0..(RingCap - 1) |-> 0], wpos |-> 0, rpos |-> 0,
     len |-> 0, eos |-> FALSE]

NoEdgeCall == [block |-> "", ok |-> FALSE, after_return |-> FALSE]

\* no FlowgraphLoader has been made
NoLoader ==
    [config |-> Unreadable, conditions |-> EmptyMap, via |-> "",
     st |-> LoadErr]

NoAnswer == [op |-> "", expr |-> NoExpr, name |-> "", truth |-> FALSE,
             id |-> -1]

NoFactoryCall ==
    [made |-> FALSE, fg |-> NewFlowgraph,
     config |-> Blk("", "", NoDtype, <<>>),
     r |-> FactoryFail(NewFlowgraph, NoError)]

\* no Per block has been made
NoPer == with_config(PerConfig(0, 0, 0, 0))

\* the task of a block before its first wake
NoPerCall == [op |-> "", p |-> PmtNull, reply |-> PmtNull]
PerTask ==
    [posts |-> <<>>, finished |-> FALSE, failed |-> FALSE, notify |-> FALSE,
     last |-> NoPerCall, nctrl |-> 0]

\* no periodic sender has been spawned
NoSender ==
    [pattern |-> <<>>, interval_ok |-> TRUE, seq |-> 0, pc |-> "none",
     message |-> "", calls |-> <<>>, received |-> <<>>, target_alive |-> FALSE]

\* no loader is in use outside the listener thread, no Per block and no
\* periodic sender run, and GAIN_CHANNEL is empty: set_gain_channel has no
\* caller in radio_frontend.rs
\* the empty OnceLock of GAIN_CHANNEL
NoGainChannel ==
    [id |-> 0, queue |-> <<>>, receiver_alive |-> FALSE, poisoned |-> FALSE]

BlocksIdle ==
    /\ per = NoPer
    /\ per_io = PerTask
    /\ periodic = NoSender
    /\ GAIN_CHANNEL = NoGainChannel

LoaderIdle ==
    /\ loader = NoLoader
    /\ answer = NoAnswer
    /\ factory_call = NoFactoryCall
    /\ BlocksIdle

\* no flowgraph is running: there is no edge and no block task
NoEdge ==
    /\ ring = EmptyRing
    /\ committed = <<>>
    /\ observed = <<>>
    /\ edge_tasks = {}
    /\ edge_terminating = FALSE
    /\ waiter = "idle"
    /\ edge_call = NoEdgeCall
    /\ pending_at_terminate = 0

\* lines 38-48 as seen from flowgraph_controller.rs: the control file holds
\* the initial path, RELOAD_CHANNEL holds the sender of the one channel; the
\* messages in flight on that channel are kept in reload_queue
StaticsInit ==
    /\ control_file = InitialFile
    /\ accepted = <<>>
    /\ switched = <<>>
    /\ RELOAD_CHANNEL = 1
    /\ channels = <<Channel>>
    /\ poisoned = FALSE
    /\ mio = NoPosts
    /\ handled = NoMessage
    /\ ncalls = 0
    /\ nsets = 1
    /\ NoEdge
    /\ LoaderIdle

\* main, lines 24-58: the channel is created and stored in RELOAD_CHANNEL,
\* the Runtime exists, the listener thread is about to enter its loop
SupInit(paths) ==
    /\ pc = "top"
    /\ current_file \in paths
    /\ fg_handle_opt = 0
    /\ old_handle = 0
    /\ loaded = LoadErr
    /\ new_fg_handle = 0
    /\ rt_graphs = <<>>
    /\ reload_queue = <<>>
    /\ reload_senders = 1
    /\ gain_channel_set = FALSE
    /\ rx_out = <<>>
    /\ last_call = NoCall
    /\ last_recv = "none"
    /\ last_request = current_file
    /\ notified = {}
    /\ terminated_on = <<>>
    /\ nrequests = 0
    /\ ntimeouts = 0
    /\ nrx = 0

Init == StaticsInit /\ SupInit(Paths)

(* ---------------------------------------------------------------------- *)
(* Runtime: flowgraph tasks                                                *)
(* ---------------------------------------------------------------------- *)
\* blocks that acquire an external resource when the flowgraph starts
ResourceTypes == {"WebsocketPmtSink"}

\* Runtime::start_sync: the outcomes a start can have
StartOutcomes(fg) ==
    IF \E i \in 1..Len(fg.blocks) : fg.blocks[i].type \in ResourceTypes
    THEN {TRUE, FALSE}
    ELSE {TRUE}

\* a block task observes the terminating flag and exits
TaskExit(g, b) ==
    /\ g \in GraphIds
    /\ rt_graphs[g].terminating
    /\ b \in rt_graphs[g].tasks
    /\ rt_graphs' = [rt_graphs EXCEPT ![g].tasks = @ \ {b}]
    /\ UNCHANGED <<pc, current_file, fg_handle_opt, old_handle, loaded,
                   new_fg_handle, reload_queue, reload_senders,
                   gain_channel_set, rx_out, last_call, last_recv,
                   last_request, notified, terminated_on, nrequests,
                   ntimeouts, nrx, control_file, log_vars, handler_vars,
                   edge_vars, loader_vars, block_vars>>

\* every block of a flowgraph finishes on its own (kernel error or finished)
GraphFinish(g) ==
    /\ g \in GraphIds
    /\ ~rt_graphs[g].terminating
    /\ Running(g)
    /\ rt_graphs' = [rt_graphs EXCEPT ![g].tasks = {}]
    /\ UNCHANGED <<pc, current_file, fg_handle_opt, old_handle, loaded,
                   new_fg_handle, reload_queue, reload_senders,
                   gain_channel_set, rx_out, last_call, last_recv,
                   last_request, notified, terminated_on, nrequests,
                   ntimeouts, nrx, control_file, log_vars, handler_vars,
                   edge_vars, loader_vars, block_vars>>

(* ---------------------------------------------------------------------- *)
(* FlowgraphController handlers                                            *)
(* ---------------------------------------------------------------------- *)
\* control that acknowledges with Ok whatever happened to the request
control_always_ok(p, channel_set, lock_ok, receiver_alive) ==
    IF p.tag = "String" /\ channel_set /\ lock_ok /\ receiver_alive
    THEN [reply |-> PmtOk, sent |-> <<p.val>>]
    ELSE [reply |-> PmtOk, sent |-> <<>>]

\* FlowgraphController::control: the reply and the paths sent on the channel
control(p, channel_set, lock_ok, receiver_alive) ==
    IF p.tag = "String"
    THEN IF channel_set
         THEN IF lock_ok
              THEN IF receiver_alive
                   THEN [reply |-> PmtOk, sent |-> <<p.val>>]
                   ELSE [reply |-> PmtString("Error: sending on a closed channel"),
                         sent |-> <<>>]
              ELSE [reply |-> PmtString("Error: Channel lock failed"),
                    sent |-> <<>>]
         ELSE [reply |-> PmtString("Error: No reload channel"), sent |-> <<>>]
    ELSE [reply |-> PmtString("Error: Expected Pmt::String"), sent |-> <<>>]

\* tx that forwards frames only: anything but a Blob is turned away
tx_blob_only(p, post_ok) ==
    IF p.tag # "Blob"
    THEN [reply |-> PmtString("Error: Expected Pmt::Blob"), posts |-> <<>>]
    ELSE [reply |-> IF post_ok THEN PmtOk
                    ELSE PmtString("Error forwarding: " \o PostError),
          posts |-> <<p>>]

\* tx that hands the Err of the post to its caller, as mio.post(..).await?
tx_propagates(p, post_ok) ==
    [reply |-> IF post_ok THEN PmtOk ELSE Pmt("Err", PostError),
     posts |-> <<p>>]

\* FlowgraphController::tx: the reply and the values given to
\* mio.post("tx_out", ..), whose outcome is post_ok
tx(p, post_ok) ==
    [reply |-> IF post_ok THEN PmtOk
               ELSE PmtString("Error forwarding: " \o PostError),
     posts |-> <<p>>]

\* rx that hands the message on as it came
rx_raw(p, post_ok) ==
    [reply |-> IF post_ok THEN PmtOk
               ELSE PmtString("Error forwarding: " \o PostError),
     posts |-> <<p>>]

\* FlowgraphController::rx: the reply and the values given to
\* mio.post("rx_out", ..), whose outcome is post_ok
rx(p, post_ok) ==
    IF p.tag = "F64"
    THEN [reply |-> PmtOk, posts |-> <<PmtString("gain:" \o p.val)>>]
    ELSE LET display_msg ==
                 CASE p.tag = "Blob" ->
                          IF p.val \in InvalidUtf8
                          THEN PmtString(DebugStr(from_utf8_lossy(p.val)))
                          ELSE PmtString(p.val)
                   [] p.tag = "String" -> PmtString(p.val)
                   [] OTHER -> PmtString(DebugPmt(p))
         IN  [reply |-> IF post_ok THEN PmtOk
                        ELSE PmtString("Error forwarding: " \o PostError),
              posts |-> <<display_msg>>]

\* the gain branch of rx that only displays the value and sends nothing
rx_gain_display_only(p, channel_set, lock_ok, receiver_alive) == <<>>

\* FlowgraphController::rx, lines 110-121: the values sent on GAIN_CHANNEL.
\* An F64 is sent when the cell holds a sender, its lock is not poisoned and
\* the receiver is alive; the Err of a send is logged and nothing else
rx_gain(p, channel_set, lock_ok, receiver_alive) ==
    IF p.tag = "F64" /\ channel_set /\ lock_ok /\ receiver_alive
    THEN <<p.val>>
    ELSE <<>>

(* ---------------------------------------------------------------------- *)
(* External calls through the flowgraph handle                             *)
(* ---------------------------------------------------------------------- *)
\* the configurations an external UI asks for
RequestPaths == {"ctrl_first.toml", "bad_type.toml", "ws.toml"}
ControlPmts == {PmtString(path) : path \in RequestPaths} \cup {PmtNull}
RxPmts == {PmtString("frame"), PmtBlob("<ff>"), PmtF64("1.5")}

\* the block task that would handle a message on that port is alive
Reaches(g, b, port) ==
    /\ g \in GraphIds
    /\ b \in rt_graphs[g].tasks
    /\ port \in MessageInputs(KernelAt(rt_graphs[g].fg, b))

CallError(g, b, port) ==
    [fg |-> g, block |-> b, port |-> port, handled |-> FALSE,
     reply |-> PmtNull]

\* the blocks of flowgraph g with a message edge into the controller's rx,
\* or the supervisor, address the controller by its BlockId
ControllerIds(g) ==
    {b \in 0..(Len(rt_graphs[g].fg.blocks) - 1) :
         KernelAt(rt_graphs[g].fg, b).type = "FlowgraphController"}

\* call(b, "control", p) on the handle of flowgraph g
handle_call_control(g, b, p) ==
    /\ nrequests < MaxRequests
    /\ g \in GraphIds
    /\ nrequests' = nrequests + 1
    /\ IF Reaches(g, b, "control")
       THEN LET r == control(p, reload_senders > 0, TRUE, pc # "exited")
            IN  /\ reload_queue' = reload_queue \o r.sent
                /\ last_call' = [fg |-> g, block |-> b, port |-> "control",
                                 handled |-> TRUE, reply |-> r.reply]
       ELSE /\ reload_queue' = reload_queue
            /\ last_call' = CallError(g, b, "control")
    /\ UNCHANGED <<pc, current_file, fg_handle_opt, old_handle, loaded,
                   new_fg_handle, rt_graphs, reload_senders, gain_channel_set,
                   rx_out, last_recv, last_request, notified, terminated_on,
                   ntimeouts, nrx>>
    /\ StaticsUnchanged

ControlCall(g, b, p) == handle_call_control(g, b, p) /\ UNCHANGED log_vars

\* call(b, "rx", p) on the handle of flowgraph g
RxCall(g, b, p) ==
    /\ nrx < MaxRx
    /\ g \in GraphIds
    /\ nrx' = nrx + 1
    /\ IF Reaches(g, b, "rx")
       THEN \* rx_out is a declared message output: the post succeeds
            LET r == rx(p, TRUE)
            IN  /\ rx_out' = [rx_out EXCEPT ![g] = @ \o r.posts]
                /\ last_call' = [fg |-> g, block |-> b, port |-> "rx",
                                 handled |-> TRUE, reply |-> r.reply]
       ELSE /\ rx_out' = rx_out
            /\ last_call' = CallError(g, b, "rx")
    /\ UNCHANGED <<pc, current_file, fg_handle_opt, old_handle, loaded,
                   new_fg_handle, rt_graphs, reload_queue, reload_senders,
                   gain_channel_set, last_recv, last_request, notified,
                   terminated_on, nrequests, ntimeouts, control_file,
                   log_vars, handler_vars,
                   edge_vars, loader_vars, block_vars>>

(* ---------------------------------------------------------------------- *)
(* The listener thread of radio_frontend.rs                                *)
(* ---------------------------------------------------------------------- *)
\* the steps of a thread that owns the sender itself and lets go of it
SupVarsUnchanged_OwnedSender ==
    /\ reload_senders' = 0
    /\ UNCHANGED <<gain_channel_set, rx_out, last_call, nrequests, nrx>>
    /\ UNCHANGED log_vars
    /\ StaticsUnchanged

\* what the steps of the listener thread leave alone: the sender lives in
\* the static RELOAD_CHANNEL, which no step of the thread can drop
SupVarsUnchanged ==
    /\ UNCHANGED <<reload_senders, gain_channel_set, rx_out, last_call,
                   nrequests, nrx>>
    /\ UNCHANGED log_vars
    /\ StaticsUnchanged

\* lines 60-72: take the old handle and ask its flowgraph to terminate
SupTop ==
    /\ pc = "top"
    /\ IF fg_handle_opt = 0
       THEN /\ pc' = "load"
            /\ UNCHANGED <<fg_handle_opt, old_handle, rt_graphs, terminated_on>>
       ELSE /\ fg_handle_opt' = 0
            /\ terminated_on' = [terminated_on EXCEPT ![fg_handle_opt] = last_recv]
            /\ IF Running(fg_handle_opt)
               THEN /\ rt_graphs' = [rt_graphs EXCEPT
                                        ![fg_handle_opt].terminating = TRUE]
                    /\ old_handle' = fg_handle_opt
                    /\ pc' = "wait_term"
               ELSE \* the flowgraph is gone: terminate_and_wait returns Err
                    /\ rt_graphs' = [rt_graphs EXCEPT ![fg_handle_opt] = Gone]
                    /\ old_handle' = 0
                    /\ pc' = "load"
    /\ UNCHANGED <<current_file, loaded, new_fg_handle, reload_queue,
                   last_recv, last_request, notified, ntimeouts>>
    /\ SupVarsUnchanged

\* SupTerminated with terminate() in place of terminate_and_wait(): the
\* thread goes on without waiting for the block tasks
SupTerminated_NoWait ==
    /\ pc = "wait_term"
    /\ pc' = "load"
    /\ old_handle' = 0
    /\ UNCHANGED <<current_file, fg_handle_opt, loaded, new_fg_handle,
                   rt_graphs, reload_queue, last_recv, last_request, notified,
                   terminated_on, ntimeouts>>
    /\ SupVarsUnchanged

\* lines 66-71: terminate_and_wait returns once every block task has exited
SupTerminated ==
    /\ pc = "wait_term"
    /\ ~Running(old_handle)
    /\ rt_graphs' = [rt_graphs EXCEPT ![old_handle] = Gone]
    /\ pc' = "load"
    /\ old_handle' = 0
    /\ UNCHANGED <<current_file, fg_handle_opt, loaded, new_fg_handle,
                   reload_queue, last_recv, last_request, notified,
                   terminated_on, ntimeouts>>
    /\ SupVarsUnchanged

\* lines 75-76 and 126-128: load current_file
SupLoad ==
    /\ pc = "load"
    /\ loaded' = load_flowgraph_with_loader(current_file)
    /\ pc' = IF loaded'.ok THEN "start" ELSE "sleep_load"
    /\ UNCHANGED <<current_file, fg_handle_opt, old_handle, new_fg_handle,
                   rt_graphs, reload_queue, last_recv, last_request, notified,
                   terminated_on, ntimeouts>>
    /\ SupVarsUnchanged

\* SupRetryLoad that falls back to the previous flowgraph: its handle is put
\* back into the slot and the thread waits for the next request
SupRetryLoad_Restore ==
    /\ pc = "sleep_load"
    /\ fg_handle_opt' = Len(rt_graphs)
    /\ pc' = "recv"
    /\ UNCHANGED <<current_file, old_handle, loaded, new_fg_handle, rt_graphs,
                   reload_queue, last_recv, last_request, notified,
                   terminated_on, ntimeouts>>
    /\ SupVarsUnchanged

\* line 129: the retry sleep after a failed load ends, the loop starts over
SupRetryLoad ==
    /\ pc = "sleep_load"
    /\ pc' = "top"
    /\ UNCHANGED <<current_file, fg_handle_opt, old_handle, loaded,
                   new_fg_handle, rt_graphs, reload_queue, last_recv,
                   last_request, notified, terminated_on, ntimeouts>>
    /\ SupVarsUnchanged

\* SupStart that ignores the error of start_sync and carries on with a handle
SupStart_IgnoreErr ==
    /\ pc = "start"
    /\ \E ok \in StartOutcomes(loaded.fg) :
          IF ok
          THEN /\ rt_graphs' = Append(rt_graphs, Started(current_file, loaded.fg))
               /\ terminated_on' = Append(terminated_on, "none")
               /\ rx_out' = Append(rx_out, <<>>)
          ELSE UNCHANGED <<rt_graphs, terminated_on, rx_out>>
    /\ new_fg_handle' = Len(rt_graphs) + 1
    /\ loaded' = loaded
    /\ pc' = "notify"
    /\ UNCHANGED <<current_file, fg_handle_opt, old_handle, reload_queue,
                   last_recv, last_request, notified, ntimeouts,
                   reload_senders, gain_channel_set, last_call, nrequests, nrx,
                   control_file, log_vars, handler_vars,
                   edge_vars, loader_vars, block_vars>>

\* lines 87-94: start the flowgraph
SupStart ==
    /\ pc = "start"
    /\ \E ok \in StartOutcomes(loaded.fg) :
          IF ok
          THEN /\ rt_graphs' = Append(rt_graphs, Started(current_file, loaded.fg))
               /\ terminated_on' = Append(terminated_on, "none")
               /\ rx_out' = Append(rx_out, <<>>)
               /\ new_fg_handle' = Len(rt_graphs) + 1
               /\ loaded' = loaded
               /\ pc' = "notify"
          ELSE /\ loaded' = LoadErr
               /\ pc' = "sleep_start"
               /\ UNCHANGED <<rt_graphs, terminated_on, rx_out, new_fg_handle>>
    /\ UNCHANGED <<current_file, fg_handle_opt, old_handle, reload_queue,
                   last_recv, last_request, notified, ntimeouts,
                   reload_senders, gain_channel_set, last_call, nrequests, nrx,
                   control_file, log_vars, handler_vars,
                   edge_vars, loader_vars, block_vars>>

\* lines 91-92: the backoff after a failed start ends, the loop starts over
SupRetryStart ==
    /\ pc = "sleep_start"
    /\ pc' = "top"
    /\ UNCHANGED <<current_file, fg_handle_opt, old_handle, loaded,
                   new_fg_handle, rt_graphs, reload_queue, last_recv,
                   last_request, notified, terminated_on, ntimeouts>>
    /\ SupVarsUnchanged

\* line 101: `let _ = new_fg_handle.call(..)` builds the future of an async
\* fn and drops it without polling it: nothing is posted to the block
UnpolledCall(out, g, p) == out

\* lines 99-103: the reload notification
SupNotify ==
    /\ pc = "notify"
    /\ LET controller_id == get_block(loaded.block_map, "flowgraph_controller")
       IN  IF controller_id # -1
           THEN /\ rx_out' = UnpolledCall(rx_out, new_fg_handle,
                                          PmtString("reload"))
                /\ notified' = notified \cup {new_fg_handle}
           ELSE UNCHANGED <<rx_out, notified>>
    /\ pc' = "store"
    /\ UNCHANGED <<current_file, fg_handle_opt, old_handle, loaded,
                   new_fg_handle, rt_graphs, reload_queue, last_recv,
                   last_request, terminated_on, ntimeouts, reload_senders,
                   gain_channel_set, last_call, nrequests, nrx, control_file,
                   log_vars, handler_vars,
                   edge_vars, loader_vars, block_vars>>

\* line 106: keep the new handle
SupStore ==
    /\ pc = "store"
    /\ fg_handle_opt' = new_fg_handle
    /\ new_fg_handle' = 0
    /\ pc' = "recv"
    /\ UNCHANGED <<current_file, old_handle, loaded, rt_graphs, reload_queue,
                   last_recv, last_request, notified, terminated_on, ntimeouts>>
    /\ SupVarsUnchanged

\* recv_timeout that hands out the newest message of the channel
recv_timeout_newest ==
    /\ pc = "recv"
    /\ loaded' = LoadErr
    /\ IF reload_queue # <<>>
       THEN /\ current_file' = reload_queue[Len(reload_queue)]
            /\ last_request' = reload_queue[Len(reload_queue)]
            /\ reload_queue' = SubSeq(reload_queue, 1, Len(reload_queue) - 1)
            /\ last_recv' = "message"
            /\ pc' = "top"
            /\ UNCHANGED ntimeouts
       ELSE IF reload_senders = 0
       THEN /\ last_recv' = "disconnected"
            /\ pc' = "exited"
            /\ UNCHANGED <<current_file, last_request, reload_queue, ntimeouts>>
       ELSE /\ ntimeouts < MaxTimeouts
            /\ ntimeouts' = ntimeouts + 1
            /\ last_recv' = "timeout"
            /\ pc' = "top"
            /\ UNCHANGED <<current_file, last_request, reload_queue>>
    /\ UNCHANGED <<fg_handle_opt, old_handle, new_fg_handle, rt_graphs,
                   notified, terminated_on>>
    /\ UNCHANGED <<reload_senders, gain_channel_set, rx_out, last_call,
                   nrequests, nrx>>
    /\ StaticsUnchanged

\* lines 109-124: recv_timeout on the reload channel
recv_timeout ==
    /\ pc = "recv"
    /\ loaded' = LoadErr
    /\ IF reload_queue # <<>>
       THEN /\ current_file' = Head(reload_queue)
            /\ last_request' = Head(reload_queue)
            /\ reload_queue' = Tail(reload_queue)
            /\ last_recv' = "message"
            /\ pc' = "top"
            /\ UNCHANGED ntimeouts
       ELSE IF reload_senders = 0
       THEN /\ last_recv' = "disconnected"
            /\ pc' = "exited"
            /\ UNCHANGED <<current_file, last_request, reload_queue, ntimeouts>>
       ELSE /\ ntimeouts < MaxTimeouts
            /\ ntimeouts' = ntimeouts + 1
            /\ last_recv' = "timeout"
            /\ pc' = "top"
            /\ UNCHANGED <<current_file, last_request, reload_queue>>
    /\ UNCHANGED <<fg_handle_opt, old_handle, new_fg_handle, rt_graphs,
                   notified, terminated_on>>
    /\ UNCHANGED <<reload_senders, gain_channel_set, rx_out, last_call,
                   nrequests, nrx>>
    /\ StaticsUnchanged

\* SupRecv whose Disconnected arm continues the loop instead of breaking
SupRecv_Continue ==
    /\ pc = "recv"
    /\ loaded' = LoadErr
    /\ IF reload_queue # <<>>
       THEN /\ current_file' = Head(reload_queue)
            /\ last_request' = Head(reload_queue)
            /\ reload_queue' = Tail(reload_queue)
            /\ last_recv' = "message"
            /\ UNCHANGED ntimeouts
       ELSE IF reload_senders = 0
       THEN /\ last_recv' = "disconnected"
            /\ UNCHANGED <<current_file, last_request, reload_queue, ntimeouts>>
       ELSE /\ ntimeouts < MaxTimeouts
            /\ ntimeouts' = ntimeouts + 1
            /\ last_recv' = "timeout"
            /\ UNCHANGED <<current_file, last_request, reload_queue>>
    /\ pc' = "top"
    /\ UNCHANGED <<fg_handle_opt, old_handle, new_fg_handle, rt_graphs,
                   notified, terminated_on>>
    /\ SupVarsUnchanged

\* lines 109-124 in the specifications that keep no history
SupRecv == recv_timeout /\ UNCHANGED log_vars

Next ==
    \/ SupTop
    \/ SupTerminated
    \/ SupLoad
    \/ SupRetryLoad
    \/ SupStart
    \/ SupRetryStart
    \/ SupNotify
    \/ SupStore
    \/ SupRecv
    \/ \E g \in GraphIds : \E b \in rt_graphs[g].tasks : TaskExit(g, b)
    \/ \E g \in GraphIds : GraphFinish(g)
    \/ \E g \in GraphIds : \E p \in ControlPmts : ControlCall(g, 0, p)
    \/ \E g \in GraphIds : \E b \in ControllerIds(g) : \E p \in RxPmts :
          RxCall(g, b, p)

Spec == Init /\ [][Next]_vars

(* ---------------------------------------------------------------------- *)
(* Specifications with fairness and with a dropped sender                  *)
(* ---------------------------------------------------------------------- *)
TaskExits == \E g \in GraphIds : \E b \in rt_graphs[g].tasks : TaskExit(g, b)

\* the listener thread keeps being scheduled, block tasks observe the
\* terminating flag, and a start that can succeed does not fail forever
Fairness ==
    /\ WF_vars(SupTop)
    /\ WF_vars(SupTerminated)
    /\ WF_vars(SupLoad)
    /\ WF_vars(SupRetryLoad)
    /\ WF_vars(SupStart)
    /\ SF_vars(SupStart /\ pc' = "notify")
    /\ WF_vars(SupRetryStart)
    /\ WF_vars(SupNotify)
    /\ WF_vars(SupStore)
    /\ WF_vars(SupRecv)
    /\ WF_vars(TaskExits)

FairSpec == Spec /\ Fairness

\* the behaviours of FairSpec in which nothing is posted to a controller's rx
\* and no flowgraph ends by itself
ControlNext ==
    \/ SupTop
    \/ SupTerminated
    \/ SupLoad
    \/ SupRetryLoad
    \/ SupStart
    \/ SupRetryStart
    \/ SupNotify
    \/ SupStore
    \/ SupRecv
    \/ TaskExits
    \/ \E g \in GraphIds : \E p \in ControlPmts : ControlCall(g, 0, p)

ControlSpec == Init /\ [][ControlNext]_vars /\ Fairness

\* the last Sender<String> of the reload channel is dropped
SenderDropped ==
    /\ reload_senders > 0
    /\ reload_senders' = 0
    /\ UNCHANGED <<pc, current_file, fg_handle_opt, old_handle, loaded,
                   new_fg_handle, rt_graphs, reload_queue, gain_channel_set,
                   rx_out, last_call, last_recv, last_request, notified,
                   terminated_on, nrequests, ntimeouts, nrx, control_file,
                   log_vars, handler_vars,
                   edge_vars, loader_vars, block_vars>>

DropSpec == Init /\ [][Next \/ SenderDropped]_vars

(* ---------------------------------------------------------------------- *)
(* The reload channel with its histories, and the control file             *)
(* ---------------------------------------------------------------------- *)
\* handle_call_control, with the paths answered with Ok kept in order
ControlCallLogged(g, b, p) ==
    /\ handle_call_control(g, b, p)
    /\ accepted' = IF last_call'.handled /\ last_call'.reply = PmtOk
                   THEN Append(accepted, p.val)
                   ELSE accepted
    /\ switched' = switched

\* recv_timeout, with the paths assigned to current_file kept in order
SupRecvLogged ==
    /\ recv_timeout
    /\ switched' = IF last_recv' = "message"
                   THEN Append(switched, current_file')
                   ELSE switched
    /\ accepted' = accepted

\* the paths something outside the listener thread writes to the control
\* file: one of the configurations, and one path that is never requested
WritePaths == {"no_ctrl.toml", "written.toml"}

\* write_control_file that also sends the path on the reload channel
WriteControlFile_Send(path) ==
    /\ control_file' = path
    /\ reload_queue' = Append(reload_queue, path)
    /\ UNCHANGED <<pc, current_file, fg_handle_opt, old_handle, loaded,
                   new_fg_handle, rt_graphs, reload_senders, gain_channel_set,
                   rx_out, last_call, last_recv, last_request, notified,
                   terminated_on, nrequests, ntimeouts, nrx>>
    /\ UNCHANGED <<log_vars, handler_vars,
                   edge_vars, loader_vars, block_vars>>

\* write_control_file: fs::write replaces the contents of the file
WriteControlFile(path) ==
    /\ control_file' = path
    /\ UNCHANGED <<sup_vars, log_vars, handler_vars,
                   edge_vars, loader_vars, block_vars>>

ReloadNext ==
    \/ SupTop
    \/ SupTerminated
    \/ SupLoad
    \/ SupRetryLoad
    \/ SupStart
    \/ SupRetryStart
    \/ SupNotify
    \/ SupStore
    \/ SupRecvLogged
    \/ TaskExits
    \/ \E g \in GraphIds : \E p \in ControlPmts : ControlCallLogged(g, 0, p)
    \/ \E path \in WritePaths : WriteControlFile(path)

ReloadSpec == Init /\ [][ReloadNext]_vars

(* ---------------------------------------------------------------------- *)
(* Configurations with stream connections between unlike element types     *)
(* ---------------------------------------------------------------------- *)
\* the files given on the command line, and the files asked for later
TypedPaths == {"ctrl_first.toml", "mismatch.toml", "mismatch_2nd.toml"}
TypedRequestPaths == {"mismatch.toml", "ws.toml"}

TypedPmts == {PmtString(path) : path \in TypedRequestPaths}

TypedInit == StaticsInit /\ SupInit(TypedPaths)

TypedNext ==
    \/ SupTop
    \/ SupTerminated
    \/ SupLoad
    \/ SupRetryLoad
    \/ SupStart
    \/ SupRetryStart
    \/ SupNotify
    \/ SupStore
    \/ SupRecv
    \/ TaskExits
    \/ \E g \in GraphIds : \E p \in TypedPmts : ControlCall(g, 0, p)

TypedSpec == TypedInit /\ [][TypedNext]_vars

(* ---------------------------------------------------------------------- *)
(* The statics of flowgraph_controller.rs and the handlers of a controller *)
(* ---------------------------------------------------------------------- *)
\* number of messages given to the handlers of the controller
MaxCalls == 2
\* number of calls of set_reload_channel
MaxSets == 2

\* the messages a handler is given: every kind of PMT the handlers tell apart
HandlerPmts ==
    {PmtNull, PmtOk, PmtString("a.toml"), PmtString("b.toml"),
     PmtBlob("frame"), PmtBlob("<ff>"), PmtF64("1.5"), Pmt("U32", "7")}

\* the listener thread has not been spawned
SupIdle == SupInit({"ctrl_first.toml"})

\* the process before main has run: both OnceLocks are empty
HandlerInit ==
    /\ SupIdle
    /\ control_file = InitialFile
    /\ accepted = <<>>
    /\ switched = <<>>
    /\ RELOAD_CHANNEL = 0
    /\ channels = <<>>
    /\ poisoned = FALSE
    /\ mio = NoPosts
    /\ handled = NoMessage
    /\ ncalls = 0
    /\ nsets = 0
    /\ NoEdge
    /\ LoaderIdle

HandlerFrame ==
    UNCHANGED <<sup_vars, control_file, log_vars, edge_vars, loader_vars,
                per_vars, periodic>>

\* set_reload_channel with OnceLock::set replaced by an overwrite
set_reload_channel_replace(cell, sender) == sender

\* set_reload_channel: OnceLock::set stores the sender only in an empty
\* cell, the Err of a second set is dropped by .ok()
set_reload_channel(cell, sender) == IF cell = 0 THEN sender ELSE cell

\* mpsc::channel() followed by set_reload_channel(tx), as in lines 45-48
SetReloadChannel ==
    /\ nsets < MaxSets
    /\ nsets' = nsets + 1
    /\ channels' = Append(channels, Channel)
    /\ RELOAD_CHANNEL' = set_reload_channel(RELOAD_CHANNEL, Len(channels) + 1)
    /\ UNCHANGED <<poisoned, mio, handled, ncalls>>
    /\ UNCHANGED GAIN_CHANNEL
    /\ HandlerFrame

\* the Receiver of channel c is dropped: the thread that owns it has ended
ReceiverDropped(c) ==
    /\ c \in 1..Len(channels)
    /\ channels[c].receiver_alive
    /\ channels' = [channels EXCEPT ![c].receiver_alive = FALSE]
    /\ UNCHANGED <<RELOAD_CHANNEL, poisoned, mio, handled, ncalls, nsets>>
    /\ UNCHANGED GAIN_CHANNEL
    /\ HandlerFrame

\* a thread panics while it holds the lock around the stored sender
LockPoisoned ==
    /\ RELOAD_CHANNEL # 0
    /\ ~poisoned
    /\ poisoned' = TRUE
    /\ UNCHANGED <<RELOAD_CHANNEL, channels, mio, handled, ncalls, nsets>>
    /\ UNCHANGED GAIN_CHANNEL
    /\ HandlerFrame

ReceiverAlive ==
    IF RELOAD_CHANNEL = 0 THEN FALSE ELSE channels[RELOAD_CHANNEL].receiver_alive

\* Control that answers without sending
Control_NoSend(p) ==
    /\ ncalls < MaxCalls
    /\ ncalls' = ncalls + 1
    /\ LET r == control(p, RELOAD_CHANNEL # 0, ~poisoned, ReceiverAlive)
       IN  /\ channels' = channels
           /\ handled' = [port |-> "control", p |-> p, reply |-> r.reply,
                          sent |-> r.sent, posts |-> <<>>, post_ok |-> TRUE,
                          nsets |-> nsets]
    /\ UNCHANGED <<RELOAD_CHANNEL, poisoned, mio, nsets>>
    /\ UNCHANGED GAIN_CHANNEL
    /\ HandlerFrame

\* a message p is delivered to the control handler of a controller
Control(p) ==
    /\ ncalls < MaxCalls
    /\ ncalls' = ncalls + 1
    /\ LET r == control(p, RELOAD_CHANNEL # 0, ~poisoned, ReceiverAlive)
       IN  /\ channels' = IF r.sent = <<>>
                          THEN channels
                          ELSE [channels EXCEPT
                                   ![RELOAD_CHANNEL].queue = @ \o r.sent]
           /\ handled' = [port |-> "control", p |-> p, reply |-> r.reply,
                          sent |-> r.sent, posts |-> <<>>, post_ok |-> TRUE,
                          nsets |-> nsets]
    /\ UNCHANGED <<RELOAD_CHANNEL, poisoned, mio, nsets>>
    /\ UNCHANGED GAIN_CHANNEL
    /\ HandlerFrame

\* a message p is delivered to the tx handler; the post succeeds or fails
Tx(p, post_ok) ==
    /\ ncalls < MaxCalls
    /\ ncalls' = ncalls + 1
    /\ LET r == tx(p, post_ok)
       IN  /\ mio' = IF post_ok THEN [mio EXCEPT !.tx_out = @ \o r.posts]
                     ELSE mio
           /\ handled' = [port |-> "tx", p |-> p, reply |-> r.reply,
                          sent |-> <<>>, posts |-> r.posts,
                          post_ok |-> post_ok, nsets |-> nsets]
    /\ UNCHANGED <<RELOAD_CHANNEL, channels, poisoned, nsets>>
    /\ UNCHANGED GAIN_CHANNEL
    /\ HandlerFrame

\* GAIN_CHANNEL.get() is Some
GainChannelSet == GAIN_CHANNEL.id # 0

\* the lock around the stored gain sender can be taken
GainLockOk == ~GAIN_CHANNEL.poisoned

\* the receiver of the stored gain sender has not been dropped
GainReceiverAlive == GAIN_CHANNEL.receiver_alive

\* a message p is delivered to the rx handler; the post succeeds or fails
Rx(p, post_ok) ==
    /\ ncalls < MaxCalls
    /\ ncalls' = ncalls + 1
    /\ LET r == rx(p, post_ok)
       IN  /\ mio' = IF post_ok THEN [mio EXCEPT !.rx_out = @ \o r.posts]
                     ELSE mio
           /\ handled' = [port |-> "rx", p |-> p, reply |-> r.reply,
                          sent |-> <<>>, posts |-> r.posts,
                          post_ok |-> post_ok, nsets |-> nsets]
    /\ LET g == rx_gain(p, GainChannelSet, GainLockOk, GainReceiverAlive)
       IN  GAIN_CHANNEL' = IF g = <<>> THEN GAIN_CHANNEL
                           ELSE [GAIN_CHANNEL EXCEPT !.queue = @ \o g]
    /\ UNCHANGED <<RELOAD_CHANNEL, channels, poisoned, nsets>>
    /\ HandlerFrame

HandlerNext ==
    \/ SetReloadChannel
    \/ \E c \in 1..Len(channels) : ReceiverDropped(c)
    \/ LockPoisoned
    \/ \E p \in HandlerPmts : Control(p)
    \/ \E p \in HandlerPmts : \E post_ok \in BOOLEAN : Tx(p, post_ok)
    \/ \E p \in HandlerPmts : \E post_ok \in BOOLEAN : Rx(p, post_ok)

HandlerSpec == HandlerInit /\ [][HandlerNext]_vars

(* ---------------------------------------------------------------------- *)
(* The controller with a gain channel: set_gain_channel and the handlers   *)
(* ---------------------------------------------------------------------- *)
\* number of messages the controller is given
MaxGainCalls == 1

\* the channels a caller of set_gain_channel may create
GainChannelIds == {1, 2}

\* mpsc::channel::<f64>() with its sender behind a fresh Mutex
GainChannel(id) ==
    [id |-> id, queue |-> <<>>, receiver_alive |-> TRUE, poisoned |-> FALSE]

\* set_gain_channel: OnceLock::set stores the sender only in an empty cell,
\* the Err of a second set is dropped by .ok()
set_gain_channel(cell, tx_) == IF cell.id = 0 THEN tx_ ELSE cell

\* a caller creates a channel and hands its sender to set_gain_channel
SetGainChannel(id) ==
    /\ GAIN_CHANNEL' = set_gain_channel(GAIN_CHANNEL, GainChannel(id))
    /\ UNCHANGED handler_vars
    /\ HandlerFrame

\* the receiver of the gain channel is dropped
GainReceiverDropped ==
    /\ GainChannelSet
    /\ GAIN_CHANNEL.receiver_alive
    /\ GAIN_CHANNEL' = [GAIN_CHANNEL EXCEPT !.receiver_alive = FALSE]
    /\ UNCHANGED handler_vars
    /\ HandlerFrame

\* a thread panics while it holds the lock around the stored gain sender
GainLockPoisoned ==
    /\ GainChannelSet
    /\ ~GAIN_CHANNEL.poisoned
    /\ GAIN_CHANNEL' = [GAIN_CHANNEL EXCEPT !.poisoned = TRUE]
    /\ UNCHANGED handler_vars
    /\ HandlerFrame

\* the block task delivers messages while no handler has returned an Err;
\* a handler that fails ends its block
ControllerAlive == handled.reply.tag # "Err"

GainNext ==
    \/ SetReloadChannel
    \/ \E c \in 1..Len(channels) : ReceiverDropped(c)
    \/ LockPoisoned
    \/ \E id \in GainChannelIds : SetGainChannel(id)
    \/ GainReceiverDropped
    \/ GainLockPoisoned
    \/ /\ ControllerAlive
       /\ ncalls < MaxGainCalls
       /\ \/ \E p \in HandlerPmts : Control(p)
          \/ \E p \in HandlerPmts : \E post_ok \in BOOLEAN : Tx(p, post_ok)
          \/ \E p \in HandlerPmts : \E post_ok \in BOOLEAN : Rx(p, post_ok)

GainSpec == HandlerInit /\ [][GainNext]_vars

(* ---------------------------------------------------------------------- *)
(* One stream edge: ring buffer, producer and consumer task, termination   *)
(* ---------------------------------------------------------------------- *)
\* number of elements the producer commits
MaxElems == 3

Min(a, b) == IF a <= b THEN a ELSE b

\* writer side: the free slots from the write position to the end of the
\* storage or to the read position, whichever comes first
WriteWindow(r) == Min(RingCap - r.len, RingCap - r.wpos)

\* a reader window that runs to the end of the storage, whatever was written
ReadWindow_ToEnd(r) == RingCap - r.rpos

\* reader side: the readable elements from the read position to the end of
\* the storage or to the write position, whichever comes first
ReadWindow(r) == Min(r.len, RingCap - r.rpos)

\* the next n elements of the reader's window, oldest first
Readable(r, n) == [i \in 1..n |-> r.buf[r.rpos + i - 1]]

\* the next n elements of the reader's window, newest first
ReadableNewestFirst(r, n) == [i \in 1..n |-> r.buf[r.rpos + n - i]]

\* writer commit of the elements es, written into the window in order
WriterCommit(r, es) ==
    [r EXCEPT !.buf = [i \in 0..(RingCap - 1) |->
                          IF i >= r.wpos /\ i < r.wpos + Len(es)
                          THEN es[i - r.wpos + 1] ELSE r.buf[i]],
              !.wpos = (r.wpos + Len(es)) % RingCap,
              !.len = r.len + Len(es)]

\* reader commit of n consumed elements
ReaderCommit(r, n) ==
    [r EXCEPT !.rpos = (r.rpos + n) % RingCap, !.len = r.len - n]

\* everything readable, oldest first, across the wrap-around
RingContents(r) ==
    [i \in 1..r.len |-> r.buf[(r.rpos + i - 1) % RingCap]]

\* a flowgraph with the edge src.output -> snk.input has just been started
EdgeInit ==
    /\ SupIdle
    /\ control_file = InitialFile
    /\ accepted = <<>>
    /\ switched = <<>>
    /\ RELOAD_CHANNEL = 1
    /\ channels = <<Channel>>
    /\ poisoned = FALSE
    /\ mio = NoPosts
    /\ handled = NoMessage
    /\ ncalls = 0
    /\ nsets = 1
    /\ ring = EmptyRing
    /\ committed = <<>>
    /\ observed = <<>>
    /\ edge_tasks = {"src", "snk"}
    /\ edge_terminating = FALSE
    /\ waiter = "idle"
    /\ edge_call = NoEdgeCall
    /\ pending_at_terminate = 0
    /\ LoaderIdle

EdgeFrame ==
    UNCHANGED <<sup_vars, control_file, log_vars, handler_vars, loader_vars,
                block_vars>>

\* the elements the producer writes next: 1, 2, 3, .. so that the order of
\* commits can be read off the values
NextElems(n) == [i \in 1..n |-> Len(committed) + i]

\* the task of src runs work and commits n produced elements
ProducerCommit(n) ==
    /\ "src" \in edge_tasks
    /\ n \in 1..WriteWindow(ring)
    /\ Len(committed) + n <= MaxElems
    /\ ring' = WriterCommit(ring, NextElems(n))
    /\ committed' = committed \o NextElems(n)
    /\ UNCHANGED <<observed, edge_tasks, edge_terminating, waiter, edge_call,
                   pending_at_terminate>>
    /\ EdgeFrame

\* the task of src observes the terminating flag, marks the end of its
\* output and exits
ProducerExit ==
    /\ "src" \in edge_tasks
    /\ edge_terminating
    /\ ring' = [ring EXCEPT !.eos = TRUE]
    /\ edge_tasks' = edge_tasks \ {"src"}
    /\ UNCHANGED <<committed, observed, edge_terminating, waiter, edge_call,
                   pending_at_terminate>>
    /\ EdgeFrame

\* ConsumerCommit that reads its window back to front
ConsumerCommit_NewestFirst(n) ==
    /\ "snk" \in edge_tasks
    /\ n \in 1..ReadWindow(ring)
    /\ observed' = observed \o ReadableNewestFirst(ring, n)
    /\ ring' = ReaderCommit(ring, n)
    /\ UNCHANGED <<committed, edge_tasks, edge_terminating, waiter, edge_call,
                   pending_at_terminate>>
    /\ EdgeFrame

\* the task of snk runs work, reads n elements and commits them as consumed
ConsumerCommit(n) ==
    /\ "snk" \in edge_tasks
    /\ n \in 1..ReadWindow(ring)
    /\ observed' = observed \o Readable(ring, n)
    /\ ring' = ReaderCommit(ring, n)
    /\ UNCHANGED <<committed, edge_tasks, edge_terminating, waiter, edge_call,
                   pending_at_terminate>>
    /\ EdgeFrame

\* ConsumerExit that leaves at the terminating flag, whatever is in the ring
ConsumerExit_AtFlag ==
    /\ "snk" \in edge_tasks
    /\ edge_terminating
    /\ edge_tasks' = edge_tasks \ {"snk"}
    /\ UNCHANGED <<ring, committed, observed, edge_terminating, waiter,
                   edge_call, pending_at_terminate>>
    /\ EdgeFrame

\* the task of snk has drained the ring, observes end-of-stream and exits
ConsumerExit ==
    /\ "snk" \in edge_tasks
    /\ ring.eos
    /\ ring.len = 0
    /\ edge_tasks' = edge_tasks \ {"snk"}
    /\ UNCHANGED <<ring, committed, observed, edge_terminating, waiter,
                   edge_call, pending_at_terminate>>
    /\ EdgeFrame

\* terminate_and_wait is called on the handle: the flag is set
TerminateAndWait ==
    /\ waiter = "idle"
    /\ waiter' = "waiting"
    /\ edge_terminating' = TRUE
    /\ pending_at_terminate' = ring.len
    /\ UNCHANGED <<ring, committed, observed, edge_tasks, edge_call>>
    /\ EdgeFrame

\* terminate_and_wait returns: every task has exited
TerminateAndWaitReturns ==
    /\ waiter = "waiting"
    /\ edge_tasks = {}
    /\ waiter' = "returned"
    /\ UNCHANGED <<ring, committed, observed, edge_tasks, edge_terminating,
                   edge_call, pending_at_terminate>>
    /\ EdgeFrame

\* call(block, ..) on the handle: handled by the task of the block if that
\* task is alive, an error otherwise
EdgeCall(b) ==
    /\ edge_call' = [block |-> b, ok |-> b \in edge_tasks,
                     after_return |-> waiter = "returned"]
    /\ UNCHANGED <<ring, committed, observed, edge_tasks, edge_terminating,
                   waiter, pending_at_terminate>>
    /\ EdgeFrame

EdgeNext ==
    \/ \E n \in 1..RingCap : ProducerCommit(n)
    \/ ProducerExit
    \/ \E n \in 1..RingCap : ConsumerCommit(n)
    \/ ConsumerExit
    \/ TerminateAndWait
    \/ TerminateAndWaitReturns
    \/ \E b \in {"src", "snk"} : EdgeCall(b)

EdgeSpec == EdgeInit /\ [][EdgeNext]_vars

(* ---------------------------------------------------------------------- *)
(* The loader on its own: from_str, set_condition, build, get_block        *)
(* ---------------------------------------------------------------------- *)
\* number of block entries of a configuration
MaxBlocks == 2
\* an optional sink of the name of SnkBlk: its guard is the condition "snk"
OptSnkBlk == [Blk("snk", "NullSink", "u8", <<>>) EXCEPT !.optional = TRUE]
\* an optional source whose name begins with '!'
NegSrcBlk == [Blk("!feature", "NullSource", "u8", <<>>) EXCEPT !.optional = TRUE]
BadBlk == Blk("x", "NoSuchBlock", NoDtype, <<>>)

LoaderBlocks == {SrcBlk, SnkBlk, OptSnkBlk, NegSrcBlk, BadBlk, CtrlBlk, WsBlk}

LoaderConns ==
    {<<>>,
     <<Conn("src", NoPort, "snk", NoPort)>>,
     <<[Conn("src", "output", "snk", "input")
            EXCEPT !.conditional = SomeExpr("feature")]>>,
     <<[Conn("!feature", NoPort, "snk", "input")
            EXCEPT !.conditional = SomeExpr("!feature")]>>}

LoaderMsgConns ==
    {<<>>,
     <<Conn("flowgraph_controller", "rx_out", "ws", "in")>>,
     <<Conn("flowgraph_controller", "rx_out", "ws", NoPort)>>,
     <<[Conn("flowgraph_controller", "tx_out", "ws", "in")
            EXCEPT !.conditional = SomeExpr("feature")]>>}

\* the sequences over S of length at most n
SeqsUpTo(S, n) == UNION {[1..k -> S] : k \in 0..n}

\* the configurations from_str is given
Configs ==
    {Config(b, c, m) : b \in SeqsUpTo(LoaderBlocks, MaxBlocks),
                       c \in LoaderConns,
                       m \in LoaderMsgConns}

\* the names set_condition is called with
ConditionNames == {"snk", "feature"}
\* the expressions eval_condition is called with
GuardExprs ==
    {NoExpr} \cup {SomeExpr(n) : n \in ConditionNames \cup {"src"}}
             \cup {SomeExpr("!" \o n) : n \in ConditionNames \cup {"src"}}
\* the names get_block is called with
LookupNames == {"src", "snk", "!feature", "ghost"}

\* from_str, lines 181-191: the configuration is parsed, block_map and
\* conditions are empty; or the file is missing and there is no loader
LoaderInit ==
    /\ SupIdle
    /\ control_file = InitialFile
    /\ accepted = <<>>
    /\ switched = <<>>
    /\ RELOAD_CHANNEL = 1
    /\ channels = <<Channel>>
    /\ poisoned = FALSE
    /\ mio = NoPosts
    /\ handled = NoMessage
    /\ ncalls = 0
    /\ nsets = 1
    /\ NoEdge
    /\ \E c \in Configs \cup {Unreadable} :
           loader = [NoLoader EXCEPT !.config = c]
    /\ answer = NoAnswer
    /\ factory_call = NoFactoryCall
    /\ BlocksIdle

LoaderFrame ==
    UNCHANGED <<sup_vars, control_file, log_vars, handler_vars, edge_vars,
                factory_call, block_vars>>

\* set_condition, lines 194-196
SetCondition(name, value) ==
    /\ loader.config.readable
    /\ loader.via = ""
    /\ loader' = [loader EXCEPT !.conditions = MapInsert(@, name, value)]
    /\ answer' = NoAnswer
    /\ LoaderFrame

\* eval_condition is called on the loader
EvalCondition(expr) ==
    /\ loader.config.readable
    /\ loader.via = ""
    /\ answer' = [NoAnswer EXCEPT !.op = "eval_condition", !.expr = expr,
                      !.truth = eval_condition(loader.conditions, expr)]
    /\ UNCHANGED loader
    /\ LoaderFrame

\* loader.build(&mut fg) on a new flowgraph; the caller keeps fg and loader
Build ==
    /\ loader.config.readable
    /\ loader.via = ""
    /\ loader' = [loader EXCEPT !.via = "build",
                      !.st = build(loader.config, loader.conditions,
                                   NewFlowgraph)]
    /\ answer' = NoAnswer
    /\ LoaderFrame

\* load_flowgraph and load_flowgraph_with_loader, lines 283-298: the caller
\* gets the flowgraph, or the error and nothing else
LoadFlowgraph ==
    /\ loader.via = ""
    /\ loader.conditions = EmptyMap
    /\ loader' = [loader EXCEPT !.via = "load_flowgraph",
                      !.st = load_config(loader.config)]
    /\ answer' = NoAnswer
    /\ LoaderFrame

\* get_block on the loader the caller holds
GetBlock(name) ==
    /\ \/ loader.via = "build"
       \/ loader.via = "load_flowgraph" /\ loader.st.ok
    /\ answer' = [NoAnswer EXCEPT !.op = "get_block", !.name = name,
                      !.id = get_block(loader.st.block_map, name)]
    /\ UNCHANGED loader
    /\ LoaderFrame

LoaderNext ==
    \/ \E name \in ConditionNames, value \in BOOLEAN : SetCondition(name, value)
    \/ \E expr \in GuardExprs : EvalCondition(expr)
    \/ Build
    \/ LoadFlowgraph
    \/ \E name \in LookupNames : GetBlock(name)

LoaderSpec == LoaderInit /\ [][LoaderNext]_vars

(* ---------------------------------------------------------------------- *)
(* The registry on its own: create_block on one block entry                *)
(* ---------------------------------------------------------------------- *)
\* the kinds of toml::Value a parameter holds, and "absent" for no entry
ValueTypes == {"integer", "float", "string"}

\* the parameters a factory requires, in the order it reads them, each with
\* the kind of value its accessor takes
RequiredParams(block_type) ==
    CASE block_type = "WebsocketPmtSink" -> <<IntParam("port")>>
      [] block_type = "Delay" -> <<IntParam("delay")>>
      [] block_type = "Throttle" -> <<FloatParam("rate")>>
      [] block_type = "FileSource" -> <<StrParam("path")>>
      [] block_type = "wifi::MovingAverage" -> <<IntParam("length")>>
      [] block_type = "zigbee::Decoder" -> <<IntParam("threshold")>>
      [] block_type = "zigbee::ClockRecoveryMm" ->
             [i \in 1..Len(ClockRecoveryMmParams) |->
                  FloatParam(ClockRecoveryMmParams[i])]
      [] OTHER -> <<>>

\* the parameter lists that give each required parameter of the type once,
\* with a value of some kind, or not at all
ParamLists(block_type) ==
    LET req == RequiredParams(block_type)
        Present(p) == p.vtype # "absent"
    IN  {SelectSeq([i \in 1..Len(req) |-> Param(req[i].name, ch[i])], Present) :
             ch \in [1..Len(req) -> ValueTypes \cup {"absent"}]}

\* the parameter lists that give the first required parameter twice
TwiceLists(block_type) ==
    LET req == RequiredParams(block_type)
    IN  IF Len(req) # 1 THEN {}
        ELSE {<<Param(req[1].name, a), Param(req[1].name, b)>> :
                  a \in ValueTypes, b \in ValueTypes}

Dtypes == {NoDtype, "u8", "u32", "f32", "Complex32", "i16"}

\* the block types that dispatch on dtype
GenericTypes ==
    {"NullSource", "NullSink", "Delay", "Throttle", "FileSource",
     "wifi::MovingAverage"}

\* the block entries create_block is given
RegistryEntries ==
    UNION {{Blk("b", t, d, params) :
                d \in Dtypes, params \in ParamLists(t) \cup TwiceLists(t)} :
               t \in Registry \cup {"NoSuchBlock"}}

\* the flowgraphs under construction create_block is given
RegistryFlowgraphs ==
    {NewFlowgraph, add_block(NewFlowgraph, Kernel("NullSource", "u8")).fg}

\* a flowgraph under construction and a parsed block entry
RegistryInit ==
    /\ SupIdle
    /\ control_file = InitialFile
    /\ accepted = <<>>
    /\ switched = <<>>
    /\ RELOAD_CHANNEL = 1
    /\ channels = <<Channel>>
    /\ poisoned = FALSE
    /\ mio = NoPosts
    /\ handled = NoMessage
    /\ ncalls = 0
    /\ nsets = 1
    /\ NoEdge
    /\ loader = NoLoader
    /\ answer = NoAnswer
    /\ BlocksIdle
    /\ \E fg \in RegistryFlowgraphs, config \in RegistryEntries :
           factory_call = [NoFactoryCall EXCEPT !.fg = fg, !.config = config]

\* registry.create_block(fg, config)
CreateBlock ==
    /\ ~factory_call.made
    /\ factory_call' =
           [factory_call EXCEPT !.made = TRUE,
                !.r = create_block(factory_call.fg, factory_call.config)]
    /\ UNCHANGED <<sup_vars, control_file, log_vars, handler_vars, edge_vars,
                   loader, answer, block_vars>>

RegistryNext == CreateBlock

RegistrySpec == RegistryInit /\ [][RegistryNext]_vars

(* ---------------------------------------------------------------------- *)
(* One Per block and its task: ctrl messages and work                      *)
(* ---------------------------------------------------------------------- *)
\* number of messages given to ctrl
MaxCtrl == 3
\* number of packets of one sweep
MaxPackets == 8

\* sweeps of one to four levels, sweeps that never end (gain_step = 0), a
\* start below the end, and levels of no, one and two packets
PerConfigs ==
    {PerConfig(gain_start, gain_end, gain_step, packets_per_gain) :
         gain_start \in {1, 2}, gain_end \in {-1, 0, 2},
         gain_step \in {0, 1, 2}, packets_per_gain \in {0, 1, 2}}

\* the messages ctrl is given: the commands, the init signal, and others
PerPmts ==
    {PmtString("start"), PmtString("stop"), PmtString("status"),
     PmtString("reset"), PmtNull, PmtF64("1.5")}

\* a flowgraph with one Per block has been started
PerInit ==
    /\ SupIdle
    /\ control_file = InitialFile
    /\ accepted = <<>>
    /\ switched = <<>>
    /\ RELOAD_CHANNEL = 1
    /\ channels = <<Channel>>
    /\ poisoned = FALSE
    /\ mio = NoPosts
    /\ handled = NoMessage
    /\ ncalls = 0
    /\ nsets = 1
    /\ NoEdge
    /\ loader = NoLoader
    /\ answer = NoAnswer
    /\ factory_call = NoFactoryCall
    /\ \E config \in PerConfigs : per = with_config(config)
    /\ per_io = PerTask
    /\ periodic = NoSender
    /\ GAIN_CHANNEL = NoGainChannel

PerFrame ==
    UNCHANGED <<sup_vars, control_file, log_vars, handler_vars, edge_vars,
                loader_vars, periodic, GAIN_CHANNEL>>

\* the task of the block has not exited: no handler failed and work has
\* not set io.finished
PerAlive == ~per_io.finished /\ ~per_io.failed

\* the task hands a message of the ctrl port to Per::ctrl
PerCtrl(p) ==
    /\ PerAlive
    /\ per_io.nctrl < MaxCtrl
    /\ LET r == ctrl(per, p)
       IN  /\ per' = r.self
           /\ per_io' = [posts |-> per_io.posts \o r.posts,
                         finished |-> r.finished,
                         failed |-> ~r.ok,
                         notify |-> r.notify,
                         last |-> [op |-> "ctrl", p |-> p, reply |-> r.reply],
                         nctrl |-> per_io.nctrl + 1]
    /\ PerFrame

\* the task wakes and calls Per::work
PerWork ==
    /\ PerAlive
    /\ per.total_packets_sent < MaxPackets
    /\ LET r == work(per)
       IN  /\ per' = r.self
           /\ per_io' = [posts |-> per_io.posts \o r.posts,
                         finished |-> r.finished,
                         failed |-> ~r.ok,
                         notify |-> r.notify,
                         last |-> [op |-> "work", p |-> PmtNull,
                                   reply |-> PmtNull],
                         nctrl |-> per_io.nctrl]
    /\ PerFrame

PerNext ==
    \/ \E p \in PerPmts : PerCtrl(p)
    \/ PerWork

PerSpec == PerInit /\ [][PerNext]_vars

\* the task calls work again after every call that asked for it and after
\* every message
PerFairSpec == PerSpec /\ WF_vars(PerWork)

(* ---------------------------------------------------------------------- *)
(* The periodic sender of load_zigbee_trx.rs and the block it calls        *)
(* ---------------------------------------------------------------------- *)
\* number of messages the sender sends
MaxSeq == 11

\* a message pattern is a string cut into pieces at its placeholders
Placeholder == "{seq}"

\* str::replace with only the first placeholder replaced
RECURSIVE replace_first(_, _, _)
replace_first(pattern, from, to) ==
    IF pattern = <<>>
    THEN ""
    ELSE IF Head(pattern) = from
    THEN to \o replace_first(Tail(pattern), "", "")
    ELSE Head(pattern) \o replace_first(Tail(pattern), from, to)

\* message_pattern.replace("{seq}", &seq.to_string()): every placeholder
\* is replaced
RECURSIVE replace(_, _, _)
replace(pattern, from, to) ==
    IF pattern = <<>>
    THEN ""
    ELSE (IF Head(pattern) = from THEN to ELSE Head(pattern))
             \o replace(Tail(pattern), from, to)

\* the patterns of the runtime section: one, two and no placeholder
Patterns ==
    {<<"hello ", Placeholder>>, <<Placeholder, "/", Placeholder>>, <<"ping">>}

\* lines 37-47: the flowgraph is started and the sender is spawned with
\* seq = 0; interval_ok is whether interval_secs is a length of time that
\* Duration::from_secs_f32 takes
SenderInit ==
    /\ SupIdle
    /\ control_file = InitialFile
    /\ accepted = <<>>
    /\ switched = <<>>
    /\ RELOAD_CHANNEL = 1
    /\ channels = <<Channel>>
    /\ poisoned = FALSE
    /\ mio = NoPosts
    /\ handled = NoMessage
    /\ ncalls = 0
    /\ nsets = 1
    /\ NoEdge
    /\ loader = NoLoader
    /\ answer = NoAnswer
    /\ factory_call = NoFactoryCall
    /\ per = NoPer
    /\ per_io = PerTask
    /\ GAIN_CHANNEL = NoGainChannel
    /\ \E pattern \in Patterns, interval_ok \in BOOLEAN :
           periodic = [NoSender EXCEPT !.pattern = pattern,
                                       !.interval_ok = interval_ok,
                                       !.pc = "timer",
                                       !.target_alive = TRUE]

SenderFrame ==
    UNCHANGED <<sup_vars, control_file, log_vars, handler_vars, edge_vars,
                loader_vars, per_vars, GAIN_CHANNEL>>

\* lines 49-56: the timer elapses, the message is made and handle.call
\* hands it to the flowgraph; from_secs_f32 panics on a negative interval
SenderSend ==
    /\ periodic.pc = "timer"
    /\ periodic.seq < MaxSeq
    /\ periodic' =
           IF ~periodic.interval_ok
           THEN [periodic EXCEPT !.pc = "panicked"]
           ELSE LET message == replace(periodic.pattern, Placeholder,
                                       to_string(periodic.seq))
                IN  [periodic EXCEPT !.message = message,
                                     !.calls = Append(@, message),
                                     !.pc = "calling"]
    /\ SenderFrame

\* the task of the target block takes the call from its inbox and runs the
\* handler of the port on the payload
TargetHandles ==
    /\ periodic.pc = "calling"
    /\ periodic.target_alive
    /\ periodic' = [periodic EXCEPT !.received = Append(@, periodic.message),
                                    !.pc = "handled"]
    /\ SenderFrame

\* the task of the target block exits
TargetExits ==
    /\ periodic.target_alive
    /\ periodic.pc \in {"timer", "calling"}
    /\ periodic' = [periodic EXCEPT !.target_alive = FALSE]
    /\ SenderFrame

\* lines 57-59: the call returns; on Ok seq is incremented, on an error
\* (the block is gone) unwrap panics and the sender ends
SenderReturn ==
    /\ \/ periodic.pc = "handled"
       \/ periodic.pc = "calling" /\ ~periodic.target_alive
    /\ periodic' =
           IF periodic.pc = "handled"
           THEN [periodic EXCEPT !.seq = @ + 1, !.pc = "timer"]
           ELSE [periodic EXCEPT !.pc = "panicked"]
    /\ SenderFrame

SenderNext ==
    \/ SenderSend
    \/ TargetHandles
    \/ TargetExits
    \/ SenderReturn

SenderSpec == SenderInit /\ [][SenderNext]_vars

(* ---------------------------------------------------------------------- *)
(* Properties                                                              *)
(* ---------------------------------------------------------------------- *)
\* the flowgraph a started record was built from is still known
Live(g) == rt_graphs[g] # Gone

\* C1: a new flowgraph is built and started only after every task of the
\* previous one has exited: while the listener thread loads, starts or backs
\* off no flowgraph has a live task, and never do two flowgraphs have live
\* tasks at the same time.
C1_DrainedBeforeStart ==
    /\ pc \in {"load", "sleep_load", "start", "sleep_start"} =>
           \A g \in GraphIds : ~Running(g)
    /\ \A g, h \in GraphIds : (Running(g) /\ Running(h)) => g = h

C1_Witness ==
    /\ Len(rt_graphs) >= 2
    /\ terminated_on[1] = "message"
    /\ ~Running(1)
    /\ Running(2)

\* the flowgraph that a complete build of a configuration yields: every
\* block entry instantiated, every connection and message connection made
Complete(config, fg) ==
    /\ Len(fg.blocks) =
           Cardinality({i \in 1..Len(config.blocks) : ~config.blocks[i].optional})
    /\ Cardinality(fg.stream_edges) =
           Cardinality({i \in 1..Len(config.connections) :
                            ~config.connections[i].conditional.some})
    /\ Cardinality(fg.message_edges) =
           Cardinality({i \in 1..Len(config.message_connections) :
                            ~config.message_connections[i].conditional.some})

\* C2: every flowgraph handed to the runtime is the complete build of its
\* configuration, and a call that is handled is handled by a block of a
\* started, completely built flowgraph; every other call fails.
C2_NoHalfBuiltGraph ==
    /\ loaded.ok => /\ File(current_file).readable
                    /\ Complete(File(current_file), loaded.fg)
    /\ \A g \in GraphIds :
           Live(g) => Complete(File(rt_graphs[g].file), rt_graphs[g].fg)
    /\ last_call.handled =>
           /\ last_call.fg \in GraphIds
           /\ Live(last_call.fg) =>
                  Complete(File(rt_graphs[last_call.fg].file),
                           rt_graphs[last_call.fg].fg)

C2_Witness ==
    /\ last_call.handled
    /\ last_call.fg = 2
    /\ Running(2)
    /\ terminated_on[1] = "message"

\* C3: once the listener thread is back waiting on the reload channel after
\* a hot-swap into a flowgraph whose controller is at BlockId 0, the
\* String("reload") message has been handled by that controller's rx and
\* is on its rx_out.
C3_ReloadNotified ==
    (/\ pc = "recv"
     /\ last_recv = "message"
     /\ fg_handle_opt # 0
     /\ Running(fg_handle_opt)
     /\ KernelAt(rt_graphs[fg_handle_opt].fg, 0).type = "FlowgraphController")
    => \E i \in 1..Len(rx_out[fg_handle_opt]) :
           rx_out[fg_handle_opt][i] = PmtString("reload")

\* configurations that build and whose start cannot fail
GoodPaths ==
    {path \in Paths : /\ load_flowgraph_with_loader(path).ok
                      /\ StartOutcomes(load_flowgraph_with_loader(path).fg) = {TRUE}}

InQueue(path) == \E i \in 1..Len(reload_queue) : reload_queue[i] = path

\* C4: a reload request for a configuration that builds and starts, once
\* accepted on the reload channel, leads to the flowgraph of that
\* configuration being started with its handle in the supervisor's slot.
C4_HotSwapHappens ==
    \A path \in GoodPaths :
        InQueue(path) ~>
            (fg_handle_opt # 0 /\ rt_graphs[fg_handle_opt].file = path)

\* C5: after a failed build the slot is empty and no flowgraph runs; the slot
\* is filled only by storing the handle of a flowgraph just started from
\* current_file; a flowgraph whose tasks have exited never runs again; and
\* current_file is always the last path received.
C5_AlwaysForward ==
    /\ [](pc = "sleep_load" =>
              (fg_handle_opt = 0 /\ \A g \in GraphIds : ~Running(g)))
    /\ [](current_file = last_request)
    /\ [][(fg_handle_opt' # fg_handle_opt /\ fg_handle_opt' # 0) =>
              /\ pc = "store"
              /\ fg_handle_opt' = Len(rt_graphs)
              /\ rt_graphs[fg_handle_opt'].file = current_file]_vars
    /\ [][\A g \in GraphIds : ~Running(g) => ~Running(g)']_vars

C5_Witness ==
    /\ pc = "sleep_load"
    /\ last_recv = "message"
    /\ Len(rt_graphs) >= 1

\* C6: after a failed build, with a reload request pending on the channel,
\* the listener thread gets back to waiting on the reload channel, where the
\* request is received.
C6_BackToReloadWait ==
    (pc = "sleep_load" /\ reload_queue # <<>>) ~> (pc = "recv")

\* C7: after a failed start the slot is empty, no handle and no flowgraph
\* exist for the failed start, the thread backs off and starts its loop over
\* with the same file; a notification is only ever issued for a flowgraph
\* that the runtime started.
C7_FailedStart ==
    /\ [](pc = "sleep_start" => (fg_handle_opt = 0 /\ new_fg_handle = 0))
    /\ [](notified \subseteq GraphIds /\ fg_handle_opt \in {0} \cup GraphIds)
    /\ [][(pc = "start" /\ pc' = "sleep_start") =>
              UNCHANGED <<rt_graphs, notified, fg_handle_opt, rx_out>>]_vars
    /\ [][(pc = "sleep_start" /\ pc' # pc) =>
              (pc' = "top" /\ current_file' = current_file)]_vars

C7_Witness ==
    /\ pc = "sleep_start"
    /\ Len(rt_graphs) >= 1

\* C8: no flowgraph is terminated because the wait on the reload channel
\* timed out.
C8_TimeoutKeepsRunning ==
    \A g \in GraphIds : terminated_on[g] # "timeout"

\* C9: once recv_timeout reports the channel disconnected the listener thread
\* has left its loop for good; the stored flowgraph is not terminated and
\* nothing is built or started any more.
C9_DisconnectedExits ==
    /\ [](last_recv = "disconnected" => pc = "exited")
    /\ [][pc = "exited" =>
              /\ pc' = "exited"
              /\ UNCHANGED <<current_file, fg_handle_opt, old_handle, loaded,
                             new_fg_handle, terminated_on, notified>>
              /\ Len(rt_graphs') = Len(rt_graphs)
              /\ \A g \in GraphIds :
                     rt_graphs'[g].terminating = rt_graphs[g].terminating]_vars

C9_Witness ==
    /\ pc = "exited"
    /\ fg_handle_opt # 0
    /\ Running(fg_handle_opt)
    /\ last_recv = "disconnected"

\* C10: in every loaded configuration that has a FlowgraphController entry,
\* that block has BlockId 0.
C10_ReservedZero ==
    loaded.ok =>
        \A i \in 1..Len(File(current_file).blocks) :
            File(current_file).blocks[i].block_type = "FlowgraphController" =>
                get_block(loaded.block_map, File(current_file).blocks[i].name) = 0

\* a handler step: one more message has been given to a handler of that port
Handles(port) == ncalls' # ncalls /\ handled'.port = port

\* C11: a String(path) given to the control handler while RELOAD_CHANNEL
\* holds a sender, the lock around it can be taken and the receiver of its
\* channel exists, puts exactly that path once at the end of that channel
\* and nothing anywhere else, and is answered with Ok.
C11_ControlEnqueues ==
    [][(/\ Handles("control")
        /\ handled'.p.tag = "String"
        /\ RELOAD_CHANNEL # 0
        /\ ~poisoned
        /\ ReceiverAlive)
       => /\ handled'.reply = PmtOk
          /\ channels' = [channels EXCEPT ![RELOAD_CHANNEL].queue =
                                              Append(@, handled'.p.val)]]_vars

C11_Witness ==
    /\ handled.port = "control"
    /\ handled.reply = PmtOk
    /\ RELOAD_CHANNEL = 1
    /\ channels[1].queue = <<"a.toml", "b.toml">>

\* the error descriptions of control, lines 63, 68, 72 and 77
ControlErrors ==
    {"Error: sending on a closed channel", "Error: Channel lock failed",
     "Error: No reload channel", "Error: Expected Pmt::String"}

\* C12: a message given to the control handler that is not a String, or
\* that comes while RELOAD_CHANNEL is empty, while the lock cannot be taken
\* or while the send fails because the receiver is gone, leaves every
\* channel as it was and is answered with a String holding one of the
\* error descriptions, never with Ok.
C12_ControlRejects ==
    [][(/\ Handles("control")
        /\ \/ handled'.p.tag # "String"
           \/ RELOAD_CHANNEL = 0
           \/ poisoned
           \/ ~ReceiverAlive)
       => /\ channels' = channels
          /\ handled'.reply # PmtOk
          /\ handled'.reply.tag = "String"
          /\ handled'.reply.val \in ControlErrors]_vars

C12_Witness ==
    /\ handled.port = "control"
    /\ handled.p = PmtString("a.toml")
    /\ handled.reply = PmtString("Error: sending on a closed channel")
    /\ RELOAD_CHANNEL = 1
    /\ ~poisoned
    /\ channels[1].queue = <<"b.toml">>

\* C13: once RELOAD_CHANNEL holds a sender it holds that sender for good:
\* it is the sender of the first channel, a later set_reload_channel leaves
\* it in place, nothing is ever sent on a later channel, and every request
\* a control handler accepts is put on the first channel.
C13_SetOnce ==
    [][/\ RELOAD_CHANNEL # 0 => RELOAD_CHANNEL' = RELOAD_CHANNEL
       /\ RELOAD_CHANNEL' \in {0, 1}
       /\ \A c \in 2..Len(channels') : channels'[c].queue = <<>>
       /\ (Handles("control") /\ handled'.reply = PmtOk)
          => channels'[1].queue = Append(channels[1].queue, handled'.p.val)]_vars

C13_Witness ==
    /\ nsets = 2
    /\ handled.port = "control"
    /\ handled.reply = PmtOk
    /\ handled.nsets = 2
    /\ channels[1].queue # <<>>
    /\ channels[2].queue = <<>>

\* what a handler answers when its post failed
ForwardError == PmtString("Error forwarding: " \o PostError)

\* C16: every message given to the tx handler, whatever its PMT variant, is
\* given unchanged to exactly one post on tx_out; the answer is Ok when the
\* post succeeded, and then tx_out has got that value and nothing else, and
\* a String with the error when the post failed; rx_out and the reload
\* channel are left alone.
C16_TxForwards ==
    [][Handles("tx")
       => /\ handled'.posts = <<handled'.p>>
          /\ handled'.post_ok
             => /\ handled'.reply = PmtOk
                /\ mio'.tx_out = Append(mio.tx_out, handled'.p)
          /\ ~handled'.post_ok
             => /\ handled'.reply = ForwardError
                /\ handled'.reply # PmtOk
                /\ mio'.tx_out = mio.tx_out
          /\ mio'.rx_out = mio.rx_out
          /\ channels' = channels]_vars

C16_Witness ==
    /\ handled.port = "tx"
    /\ handled.p = PmtBlob("frame")
    /\ ~handled.post_ok
    /\ handled.reply = ForwardError
    /\ mio.tx_out = <<Pmt("U32", "7")>>

\* C17 as stated: every message given to the rx handler causes exactly one
\* post on rx_out, of the value received.
C17_RxForwardsSameValue ==
    [][Handles("rx") => handled'.posts = <<handled'.p>>]_vars

\* C17: every message given to the rx handler causes exactly one post on
\* rx_out, of a String: the String received, the text of a Blob that is
\* valid UTF-8, the debug form of the lossy decoding of any other Blob,
\* "gain:" and the number for an F64, and the debug form of any other PMT;
\* a post that succeeds puts that String, and nothing else, on rx_out.
C17_RxForwardsAsString ==
    [][Handles("rx")
       => LET p == handled'.p
              posts == handled'.posts
          IN  /\ Len(posts) = 1
              /\ posts[1].tag = "String"
              /\ p.tag = "String" => posts[1] = p
              /\ (p.tag = "Blob" /\ p.val \notin InvalidUtf8)
                 => posts[1].val = p.val
              /\ (p.tag = "Blob" /\ p.val \in InvalidUtf8)
                 => posts[1].val = DebugStr(from_utf8_lossy(p.val))
              /\ p.tag = "F64" => posts[1].val = "gain:" \o p.val
              /\ p.tag \notin {"String", "Blob", "F64"}
                 => posts[1].val = DebugPmt(p)
              /\ handled'.post_ok => mio'.rx_out = Append(mio.rx_out, posts[1])
              /\ mio'.tx_out = mio.tx_out]_vars

C17_Witness ==
    /\ handled.port = "rx"
    /\ handled.p = PmtBlob("frame")
    /\ handled.post_ok
    /\ mio.rx_out = <<PmtString("gain:1.5"), PmtString("frame")>>

\* C14: the paths the listener thread switches to are, in order, a prefix
\* of the paths that control handlers sent with reply Ok, and every such
\* path that has not been switched to is still in flight on the channel,
\* in order: none is lost, none is received twice.
C14_SwitchedPrefixOfAccepted ==
    /\ Len(switched) <= Len(accepted)
    /\ switched = SubSeq(accepted, 1, Len(switched))
    /\ accepted = switched \o reload_queue

C14_Witness ==
    /\ Len(accepted) = 2
    /\ accepted[1] # accepted[2]
    /\ switched = <<accepted[1]>>
    /\ reload_queue = <<accepted[2]>>
    /\ last_call.fg = 1

C18_TerminateAndWait ==
    /\ waiter = "returned"
       => /\ edge_tasks = {}
          /\ ring.len = 0
          /\ observed = committed
    /\ edge_call.after_return => ~edge_call.ok

C18_Witness ==
    /\ waiter = "returned"
    /\ pending_at_terminate = 2
    /\ Len(committed) = 3
    /\ edge_call.after_return
    /\ edge_call.block = "snk"

\* C20: the consumer of the edge has read the elements in the order the
\* producer committed them: what it has read is the beginning of what was
\* committed, and what it has not read yet is in the ring, oldest first.
C20_FifoPerEdge ==
    /\ Len(observed) <= Len(committed)
    /\ observed = SubSeq(committed, 1, Len(observed))
    /\ committed = observed \o RingContents(ring)
    /\ \A i, j \in 1..Len(observed) : i < j => observed[i] < observed[j]

C20_Witness ==
    /\ observed = <<1, 2, 3>>
    /\ ring.wpos = 1
    /\ ring.rpos = 1
    /\ "src" \in edge_tasks
    /\ "snk" \in edge_tasks

\* the element type a block entry of a configuration declares for its ports
ElementType(config, name) ==
    LET i == CHOOSE k \in 1..Len(config.blocks) : config.blocks[k].name = name
        r == create_block(NewFlowgraph, config.blocks[i])
    IN  KernelAt(r.fg, 0).dtype

\* connection i of a configuration joins ports of different element types
MismatchedAt(config, i) ==
    ElementType(config, config.connections[i].from)
        # ElementType(config, config.connections[i].to)

Mismatched(config) ==
    \E i \in 1..Len(config.connections) : MismatchedAt(config, i)

\* the BlockId the loader gives the block entry of that name
IdOf(config, name) ==
    (CHOOSE k \in 1..Len(config.blocks) : config.blocks[k].name = name) - 1

\* C19: for a configuration with a stream connection between ports of
\* different element types the build never succeeds, the error of the
\* failed load is a type mismatch that names the two endpoints of such a
\* connection, no running flowgraph was built from such a configuration,
\* and while such a configuration is the current file no flowgraph is
\* started and no block task is spawned.
C19_TypeSafety ==
    /\ [](Mismatched(File(current_file)) => ~loaded.ok)
    /\ []((pc = "sleep_load" /\ Mismatched(File(current_file)))
          => /\ loaded.err.kind = "type mismatch"
             /\ \E i \in 1..Len(File(current_file).connections) :
                    LET conn == File(current_file).connections[i]
                    IN  /\ MismatchedAt(File(current_file), i)
                        /\ loaded.err.from =
                               <<IdOf(File(current_file), conn.from), "output">>
                        /\ loaded.err.to =
                               <<IdOf(File(current_file), conn.to), "input">>)
    /\ [](\A g \in GraphIds :
              Live(g) => ~Mismatched(File(rt_graphs[g].file)))
    /\ [][Mismatched(File(current_file))
          => /\ Len(rt_graphs') = Len(rt_graphs)
             /\ \A g \in GraphIds :
                    rt_graphs'[g].tasks \subseteq rt_graphs[g].tasks
             /\ new_fg_handle' = 0]_vars

C19_Witness ==
    /\ pc = "sleep_load"
    /\ current_file = "mismatch.toml"
    /\ last_recv = "message"
    /\ Len(rt_graphs) = 1
    /\ loaded.err = Error("type mismatch", <<1, "output">>, <<2, "input">>)

\* C21: on the stream edge the consumer has never consumed more elements
\* than the producer has committed, and the difference is what the ring
\* holds; once the producer has marked the end of the stream nothing more is
\* committed, and the consumer observes the end of the stream only in a step
\* taken when it has consumed every committed element.
C21_StreamConservation ==
    /\ [](/\ Len(observed) <= Len(committed)
          /\ ring.len = Len(committed) - Len(observed)
          /\ ring.eos => "src" \notin edge_tasks)
    /\ [][ring.eos => committed' = committed]_vars
    /\ [][("snk" \in edge_tasks /\ "snk" \notin edge_tasks')
              => /\ ring.eos
                 /\ Len(observed) = Len(committed)
                 /\ observed' = observed]_vars

C21_Witness ==
    /\ ring.eos
    /\ "snk" \notin edge_tasks
    /\ waiter = "waiting"
    /\ pending_at_terminate = 1
    /\ Len(observed) = 3

\* C22: eval_condition gives true for an absent guard; for a guard "name"
\* the value the condition map holds for name, false when the map has no
\* entry for it; for a guard "!name" the negation of that, so true when the
\* map has no entry for name.
C22_GuardEvaluation ==
    answer.op = "eval_condition" =>
        /\ ~answer.expr.some => answer.truth
        /\ answer.expr.some =>
               \E n \in Names : answer.expr.e \in {n, "!" \o n}
        /\ \A n \in Names :
               /\ answer.expr = SomeExpr(n) =>
                      answer.truth = (/\ n \in DOMAIN loader.conditions
                                      /\ loader.conditions[n])
               /\ answer.expr = SomeExpr("!" \o n) =>
                      answer.truth = ~(/\ n \in DOMAIN loader.conditions
                                       /\ loader.conditions[n])

C22_Witness ==
    /\ answer.op = "eval_condition"
    /\ answer.expr = SomeExpr("!feature")
    /\ DOMAIN loader.conditions = {"snk"}
    /\ loader.conditions["snk"]
    /\ answer.truth

\* the condition a guard expression names: what follows its leading '!',
\* or the expression itself when it has none
GuardCondition(e) ==
    IF strip_prefix(e).some THEN strip_prefix(e).e ELSE e

\* the value of a guard expression under the loader's conditions
ExprHolds(expr) ==
    \/ ~expr.some
    \/ LET set == /\ GuardCondition(expr.e) \in DOMAIN loader.conditions
                  /\ loader.conditions[GuardCondition(expr.e)]
       IN  IF strip_prefix(expr.e).some THEN ~set ELSE set

\* the value of the guard of a block entry: no guard unless the entry is
\* optional, and then its name as expression
GuardHolds(block_cfg) ==
    ~block_cfg.optional \/ ExprHolds(SomeExpr(block_cfg.name))

\* the factory of every block entry of the configuration accepts it
AllCreatable ==
    \A i \in 1..Len(loader.config.blocks) :
        create_block(NewFlowgraph, loader.config.blocks[i]).ok

\* the loader was built and no factory failed
BlocksBuilt == loader.via = "build" /\ AllCreatable

\* the number of entries among kept that come before entry i
Rank(kept, i) == Cardinality({j \in kept : j < i})

\* the flowgraph holds one block for each entry of kept and no other, in the
\* order of the entries, and the map holds the names of these entries and no
\* other, each with the BlockId of an entry of that name
InstantiatedAre(kept) ==
    LET blocks == loader.config.blocks
        st == loader.st
    IN  /\ Len(st.fg.blocks) = Cardinality(kept)
        /\ \A i \in kept :
               st.fg.blocks[Rank(kept, i) + 1].type = blocks[i].block_type
        /\ DOMAIN st.block_map = {blocks[i].name : i \in kept}
        /\ \A i \in kept :
               \E j \in kept :
                   /\ blocks[j].name = blocks[i].name
                   /\ st.block_map[blocks[i].name] = Rank(kept, j)

\* C23 as stated: the blocks skipped are those whose guard is false, and
\* among them is every optional block whose guard names a condition that
\* was never set.
C23_UnsetOptionalSkipped ==
    BlocksBuilt =>
        InstantiatedAre({i \in 1..Len(loader.config.blocks) :
            /\ GuardHolds(loader.config.blocks[i])
            /\ loader.config.blocks[i].optional =>
                   GuardCondition(loader.config.blocks[i].name)
                       \in DOMAIN loader.conditions})

\* C23: build skips a block entry exactly when its guard is false, the guard
\* of an optional entry being its own name read as "name" or "!name": each
\* entry that is not skipped is instantiated once, in order, and is in the
\* name-to-BlockId map; a skipped entry is not instantiated and brings no map
\* entry; an optional entry with a plain name whose condition was never set
\* is skipped, one whose name begins with '!' is then instantiated.
C23_GuardedBlocks ==
    BlocksBuilt =>
        /\ InstantiatedAre({i \in 1..Len(loader.config.blocks) :
                                GuardHolds(loader.config.blocks[i])})
        /\ \A i \in 1..Len(loader.config.blocks) :
               LET b == loader.config.blocks[i]
               IN  (b.optional /\ GuardCondition(b.name)
                                      \notin DOMAIN loader.conditions)
                       => (GuardHolds(b) <=> strip_prefix(b.name).some)

C23_Witness ==
    /\ loader.via = "build"
    /\ loader.config.blocks = <<OptSnkBlk, NegSrcBlk>>
    /\ loader.conditions = EmptyMap
    /\ loader.st.ok
    /\ Len(loader.st.fg.blocks) = 1
    /\ DOMAIN loader.st.block_map = {"!feature"}

\* the block entries of the loader's configuration that are not skipped
Kept ==
    {i \in 1..Len(loader.config.blocks) : GuardHolds(loader.config.blocks[i])}

\* the kernel the factory builds from a block entry
KernelOf(block_cfg) == KernelAt(create_block(NewFlowgraph, block_cfg).fg, 0)

\* id is the BlockId of a block built from an entry of that name
NamedBy(id, name) ==
    \E j \in Kept : /\ loader.config.blocks[j].name = name
                    /\ Rank(Kept, j) = id

\* the stream connections of the configuration that are enabled
EnabledConns ==
    {k \in 1..Len(loader.config.connections) :
         ExprHolds(loader.config.connections[k].conditional)}

\* the edge e joins the blocks that conn names, at the ports it names or at
\* "output" and "input" where it names none
StreamEdgeOf(e, conn) ==
    /\ NamedBy(e[1], conn.from)
    /\ e[2] = (IF conn.from_port = NoPort THEN "output" ELSE conn.from_port)
    /\ NamedBy(e[3], conn.to)
    /\ e[4] = (IF conn.to_port = NoPort THEN "input" ELSE conn.to_port)

\* conn names one kept entry at each end, and the kernels of these have a
\* stream output "output", a stream input "input" and one element type
Connectable(conn) ==
    \E i, j \in Kept :
        /\ \A h \in Kept :
               /\ loader.config.blocks[h].name = conn.from => h = i
               /\ loader.config.blocks[h].name = conn.to => h = j
        /\ loader.config.blocks[i].name = conn.from
        /\ loader.config.blocks[j].name = conn.to
        /\ "output" \in StreamOutputs(KernelOf(loader.config.blocks[i]))
        /\ "input" \in StreamInputs(KernelOf(loader.config.blocks[j]))
        /\ KernelOf(loader.config.blocks[i]).dtype
               = KernelOf(loader.config.blocks[j]).dtype

EnabledMsgConns ==
    {k \in 1..Len(loader.config.message_connections) :
         ExprHolds(loader.config.message_connections[k].conditional)}

\* the edge e joins the blocks that msg_conn names, from its from_port to
\* its to_port, or to the port of the name of from_port where it has none
MessageEdgeOf(e, msg_conn) ==
    /\ NamedBy(e[1], msg_conn.from)
    /\ e[2] = msg_conn.from_port
    /\ NamedBy(e[3], msg_conn.to)
    /\ e[4] = (IF msg_conn.to_port = NoPort
               THEN msg_conn.from_port ELSE msg_conn.to_port)

\* msg_conn names one kept entry at each end, and the kernels of these have
\* the message output and the message input it is to join
MsgConnectable(msg_conn) ==
    \E i, j \in Kept :
        /\ \A h \in Kept :
               /\ loader.config.blocks[h].name = msg_conn.from => h = i
               /\ loader.config.blocks[h].name = msg_conn.to => h = j
        /\ loader.config.blocks[i].name = msg_conn.from
        /\ loader.config.blocks[j].name = msg_conn.to
        /\ msg_conn.from_port \in MessageOutputs(KernelOf(loader.config.blocks[i]))
        /\ (IF msg_conn.to_port = NoPort
            THEN msg_conn.from_port ELSE msg_conn.to_port)
               \in MessageInputs(KernelOf(loader.config.blocks[j]))

\* C25: after a successful build the message edges of the flowgraph are
\* those of the enabled message connections and no other: each joins
\* from_port of the block named as source to to_port of the block named as
\* destination, or to the port named like from_port when to_port is omitted.
\* A connection the flowgraph refuses for its ports was attempted between
\* these same two ports, and the build succeeds when every enabled message
\* connection can be made this way.
C25_MessageConnections ==
    LET msgs == loader.config.message_connections
        edges == loader.st.fg.message_edges
        err == loader.st.err
    IN  /\ (loader.via = "build" /\ loader.st.ok) =>
               /\ \A k \in EnabledMsgConns :
                      \E e \in edges : MessageEdgeOf(e, msgs[k])
               /\ \A e \in edges :
                      \E k \in EnabledMsgConns : MessageEdgeOf(e, msgs[k])
        /\ (loader.via = "build" /\ err.kind = "invalid message port") =>
               \E k \in EnabledMsgConns :
                   MessageEdgeOf(<<err.from[1], err.from[2],
                                   err.to[1], err.to[2]>>, msgs[k])
        /\ (/\ BlocksBuilt
            /\ \A k \in EnabledConns : Connectable(loader.config.connections[k])
            /\ \A k \in EnabledMsgConns : MsgConnectable(msgs[k]))
               => loader.st.ok

C25_Witness ==
    /\ loader.via = "build"
    /\ loader.config.blocks = <<WsBlk, CtrlBlk>>
    /\ loader.config.message_connections =
           <<Conn("flowgraph_controller", "rx_out", "ws", NoPort)>>
    /\ loader.st.err =
           Error("invalid message port", <<1, "rx_out">>, <<0, "rx_out">>)

\* the names of the block entries that are not skipped
KeptNames == {loader.config.blocks[i].name : i \in Kept}

\* an enabled stream or message connection names a block that was never
\* declared, or that was declared and skipped
Unresolved ==
    \/ \E k \in EnabledConns :
           \/ loader.config.connections[k].from \notin KeptNames
           \/ loader.config.connections[k].to \notin KeptNames
    \/ \E k \in EnabledMsgConns :
           \/ loader.config.message_connections[k].from \notin KeptNames
           \/ loader.config.message_connections[k].to \notin KeptNames

NotFound == {"Source block not found", "Destination block not found"}

\* C26: when an enabled stream or message connection names a source or a
\* destination that is not in the name-to-BlockId map, build returns an
\* error, and a "not found" error names such a block; load_flowgraph and
\* load_flowgraph_with_loader then hand the caller the error and no
\* flowgraph and no loader.
C26_UnresolvableNames ==
    /\ (loader.via # "" /\ loader.config.readable /\ AllCreatable
            /\ Unresolved)
           => /\ ~loader.st.ok
              /\ loader.via = "load_flowgraph"
                     => /\ loader.st.fg = NewFlowgraph
                        /\ loader.st.block_map = EmptyMap
    /\ (loader.via # "" /\ loader.st.err.kind \in NotFound)
           => /\ Unresolved
              /\ loader.st.err.kind = "Source block not found"
                     => loader.st.err.from[2] \notin KeptNames
              /\ loader.st.err.kind = "Destination block not found"
                     => loader.st.err.to[2] \notin KeptNames

C26_Witness ==
    /\ loader.via = "load_flowgraph"
    /\ loader.config.blocks = <<SrcBlk, OptSnkBlk>>
    /\ loader.config.connections = <<Conn("src", NoPort, "snk", NoPort)>>
    /\ loader.st.err =
           Error("Destination block not found", NoEndpoint, <<-1, "snk">>)
    /\ loader.st.fg = NewFlowgraph

\* the first block entry that is not skipped and whose type has no factory;
\* 0 if there is none
FirstUnknown ==
    LET unknown == {i \in Kept :
                        loader.config.blocks[i].block_type \notin Registry}
    IN  IF unknown = {} THEN 0
        ELSE CHOOSE i \in unknown : \A j \in unknown : i <= j

\* C27: when a block entry that is not skipped has a type that is no key of
\* the registry, build returns the error of create_block that names the
\* type; the flowgraph holds the blocks of the entries before it and none
\* for this entry or a later one, the map holds no later name, and no stream
\* or message connection was made.
C27_UnknownBlockType ==
    (loader.via = "build" /\ FirstUnknown # 0) =>
        LET i == FirstUnknown
            before == {j \in Kept : j < i}
        IN  /\ ~loader.st.ok
            /\ loader.st.err =
                   NoFactoryError(loader.config.blocks[i].block_type)
            /\ Len(loader.st.fg.blocks) = Cardinality(before)
            /\ DOMAIN loader.st.block_map =
                   {loader.config.blocks[j].name : j \in before}
            /\ loader.st.fg.stream_edges = {}
            /\ loader.st.fg.message_edges = {}

C27_Witness ==
    /\ loader.via = "build"
    /\ loader.config.blocks = <<BadBlk, SrcBlk>>
    /\ loader.config.connections = <<Conn("src", NoPort, "snk", NoPort)>>
    /\ loader.st.err = NoFactoryError("NoSuchBlock")
    /\ loader.st.fg = NewFlowgraph
    /\ loader.st.block_map = EmptyMap

\* the dtype strings the factory of a generic block type names in its match
SupportedBy(block_type) ==
    CASE block_type \in {"NullSource", "NullSink"} -> SupportedDtypes
      [] block_type \in {"Delay", "Throttle", "FileSource"} -> DelayDtypes
      [] block_type = "wifi::MovingAverage" -> {"Complex32", "f32"}
      [] OTHER -> {}

\* create_block was called on an entry of a generic block type that gives a
\* dtype outside the set its factory dispatches on
UnknownDtype ==
    /\ factory_call.made
    /\ factory_call.config.block_type \in GenericTypes
    /\ factory_call.config.dtype # NoDtype
    /\ factory_call.config.dtype
           \notin SupportedBy(factory_call.config.block_type)

\* C28: for every block type that dispatches on dtype, a dtype string
\* outside the supported set of the type makes the factory return an error
\* and leave the flowgraph as it was.
C28_UnknownDtypeRejected ==
    UnknownDtype => /\ ~factory_call.r.ok
                    /\ factory_call.r.fg = factory_call.fg

\* the same for the generic block types other than wifi::MovingAverage
UnknownDtypeRejectedElsewhere ==
    (UnknownDtype /\ factory_call.config.block_type # "wifi::MovingAverage")
        => /\ ~factory_call.r.ok
           /\ factory_call.r.fg = factory_call.fg
           /\ factory_call.r.err.kind
                  \in {"Parameter not found or invalid",
                       "FileSource requires parameter",
                       "Unsupported dtype for "
                           \o factory_call.config.block_type}

\* wifi::MovingAverage with dtype "i16" and its length: built as f32
MovingAverageFallsBack ==
    /\ factory_call.made
    /\ factory_call.config =
           Blk("b", "wifi::MovingAverage", "i16", <<IntParam("length")>>)
    /\ factory_call.fg = NewFlowgraph
    /\ factory_call.r.ok
    /\ factory_call.r.fg.blocks = <<Kernel("wifi::MovingAverage", "f32")>>

\* the entry of the parameter list that `find` yields for a name: the first
\* of that name; 0 if there is none
Find(params, name) ==
    LET hits == {i \in 1..Len(params) : params[i].name = name}
    IN  IF hits = {} THEN 0 ELSE CHOOSE i \in hits : \A j \in hits : i <= j

\* the required parameters of the entry that are absent from its list or
\* hold a value of another kind than the factory takes, by position in the
\* order the factory reads them
Failing(config) ==
    LET req == RequiredParams(config.block_type)
    IN  {k \in 1..Len(req) :
             \/ Find(config.parameters, req[k].name) = 0
             \/ config.parameters[Find(config.parameters, req[k].name)].vtype
                    # req[k].vtype}

\* C29: when a parameter its factory requires is absent from the parameter
\* list of a block entry, or is there with a value of the wrong type, the
\* factory returns an error that names the first such parameter and leaves
\* the flowgraph under construction as it was.
C29_MissingParameter ==
    (factory_call.made /\ Failing(factory_call.config) # {}) =>
        LET req == RequiredParams(factory_call.config.block_type)
            first == CHOOSE k \in Failing(factory_call.config) :
                         \A j \in Failing(factory_call.config) : k <= j
        IN  /\ ~factory_call.r.ok
            /\ factory_call.r.fg = factory_call.fg
            /\ factory_call.r.err.from = <<-1, req[first].name>>

C29_Witness ==
    /\ factory_call.made
    /\ factory_call.config =
           Blk("b", "zigbee::ClockRecoveryMm", NoDtype,
               <<FloatParam("omega"), IntParam("gain_omega"),
                 FloatParam("mu"), FloatParam("omega_relative_limit")>>)
    /\ Len(factory_call.fg.blocks) = 1
    /\ factory_call.r.err = ParamError("gain_omega")
    /\ factory_call.r.fg = factory_call.fg

\* a loader whose flowgraph was built without an error
Built == loader.via # "" /\ loader.st.ok

\* the names of the instantiated entries are distinct, as the names of the
\* block entries of one file are to be
UniqueNames ==
    \A i, j \in Kept :
        loader.config.blocks[i].name = loader.config.blocks[j].name => i = j

\* C30: after a successful build of a configuration whose block names are
\* unique, the loader holds the name -> BlockId map: get_block of the name
\* of an instantiated entry returns the BlockId add_block returned to the
\* factory for that entry, the block of that id is the one built from the
\* entry, no two instantiated entries share a key of the map, and get_block
\* of any other name returns None.
C30_BlockMapRetained ==
    (Built /\ UniqueNames) =>
        LET blocks == loader.config.blocks
            st == loader.st
        IN  /\ \A i \in Kept :
                   /\ get_block(st.block_map, blocks[i].name) = Rank(Kept, i)
                   /\ KernelAt(st.fg, Rank(Kept, i)) = KernelOf(blocks[i])
            /\ Cardinality(DOMAIN st.block_map) = Cardinality(Kept)
            /\ \A i, j \in Kept :
                   i # j => st.block_map[blocks[i].name]
                              # st.block_map[blocks[j].name]
            /\ answer.op = "get_block" =>
                   answer.id = IF answer.name \in KeptNames
                               THEN Rank(Kept, CHOOSE i \in Kept :
                                        blocks[i].name = answer.name)
                               ELSE -1

C30_Witness ==
    /\ Built
    /\ Kept = {1, 2}
    /\ loader.config.blocks[1].name = "!feature"
    /\ loader.config.blocks[2].name = "snk"
    /\ answer.op = "get_block"
    /\ answer.name = "snk"
    /\ answer.id = 1

\* two instantiated entries of one name: the map holds the BlockId of the
\* later one and the earlier block has no name
DuplicateNameShadows ==
    /\ Built
    /\ Kept = {1, 2}
    /\ loader.config.blocks[1].name = loader.config.blocks[2].name
    /\ Len(loader.st.fg.blocks) = 2
    /\ DOMAIN loader.st.block_map = {loader.config.blocks[1].name}
    /\ loader.st.block_map[loader.config.blocks[1].name] = 1

\* the values posted on one output of the Per block, in order
PostedOn(posts, port) ==
    LET on == SelectSeq(posts, LAMBDA m : m.port = port)
    IN  [i \in 1..Len(on) |-> on[i].p]

\* the messages posted since the sweep was last started
Started_(config) ==
    [port |-> "status",
     p |-> PmtString("started:gain=" \o DisplayF64(config.gain_start))]
SweepPosts ==
    LET starts == {i \in 1..Len(per_io.posts) :
                       per_io.posts[i] = Started_(per.config)}
        last == CHOOSE i \in starts : \A j \in starts : j <= i
    IN  IF starts = {} THEN <<>>
        ELSE SubSeq(per_io.posts, last + 1, Len(per_io.posts))

\* the packet of sequence number seq at gain level g
PacketAt(g, seq) ==
    PmtBlob("load" \o ZeroPad(as_u32(g), 2) \o ZeroPad(seq, 4))

\* the packets of a sweep that sends n packets at each level from g down to
\* gain_end in steps of gain_step > 0
RECURSIVE SweepFrom(_, _, _)
SweepFrom(config, g, n) ==
    IF g < config.gain_end
    THEN <<>>
    ELSE [seq \in 1..n |-> PacketAt(g, seq - 1)]
             \o SweepFrom(config, g - config.gain_step, n)

\* C32: a sweep of the Per block that has finished has posted on tx, for
\* each gain level from gain_start down to gain_end in steps of gain_step,
\* exactly packets_per_gain packets, numbered 0, 1, ... in order, also when
\* packets_per_gain is 0.
C32_PacketsPerGain ==
    per.state = "Finished" =>
        PostedOn(SweepPosts, "tx")
            = SweepFrom(per.config, per.config.gain_start,
                        per.config.packets_per_gain)

\* with packets_per_gain >= 1 and a start that is not below the end, the
\* finished sweep is as C32 says
PacketsPerGainWhenPositive ==
    (/\ per.state = "Finished"
     /\ per.config.packets_per_gain >= 1
     /\ per.config.gain_start >= per.config.gain_end)
        => PostedOn(SweepPosts, "tx")
               = SweepFrom(per.config, per.config.gain_start,
                           per.config.packets_per_gain)

\* with packets_per_gain = 0 the finished sweep has sent one packet at each
\* level
ZeroPacketsSendsOne ==
    /\ per.state = "Finished"
    /\ per.config.packets_per_gain = 0
    /\ per.config.gain_start >= per.config.gain_end
    /\ PostedOn(SweepPosts, "tx") # <<>>
    /\ PostedOn(SweepPosts, "tx")
           = SweepFrom(per.config, per.config.gain_start, 1)

\* with a start below the end the sweep still sends the packets of the
\* level gain_start
StartBelowEndSends ==
    /\ per.state = "Finished"
    /\ per.config.gain_start < per.config.gain_end
    /\ per.config.packets_per_gain = 2
    /\ PostedOn(SweepPosts, "tx")
           = <<PacketAt(per.config.gain_start, 0),
               PacketAt(per.config.gain_start, 1)>>

StartPmts == {PmtString("start"), PmtNull}

\* C33: the state of the Per block changes only from Idle to Running on a
\* ctrl message "start" or Null, from Running to Idle on "stop", and from
\* Running to Finished when work steps the gain below gain_end; "start" and
\* Null outside Idle, "stop" outside Running, and "status" and every other
\* message change no field, and Finished is never left.
C33_StateTransitions ==
    /\ [][LET op == per_io'.last.op
              p == per_io'.last.p
          IN  /\ per'.state # per.state =>
                     \/ /\ per.state = "Idle" /\ per'.state = "Running"
                        /\ op = "ctrl" /\ p \in StartPmts
                     \/ /\ per.state = "Running" /\ per'.state = "Idle"
                        /\ op = "ctrl" /\ p = PmtString("stop")
                     \/ /\ per.state = "Running" /\ per'.state = "Finished"
                        /\ op = "work"
                        /\ per'.current_gain
                               = per.current_gain - per.config.gain_step
                        /\ per'.current_gain < per.config.gain_end
              /\ (op = "ctrl" /\ p \in StartPmts /\ per.state = "Idle")
                     => per'.state = "Running"
              /\ (op = "ctrl" /\ p = PmtString("stop")
                      /\ per.state = "Running")
                     => per'.state = "Idle"
              /\ (op = "ctrl" /\ p \in StartPmts /\ per.state # "Idle")
                     => per' = per
              /\ (op = "ctrl" /\ p = PmtString("stop")
                      /\ per.state # "Running")
                     => per' = per
              /\ (op = "ctrl" /\ p \notin StartPmts \cup {PmtString("stop")})
                     => per' = per]_vars
    /\ [](per.state = "Finished" =>
              /\ work(per).self = per
              /\ \A p \in PerPmts : ctrl(per, p).self = per)

\* a sweep was started, stopped, started again and has finished
C33_Witness ==
    /\ per.state = "Finished"
    /\ per_io.nctrl = 3
    /\ \E i \in 1..Len(per_io.posts) :
           per_io.posts[i] = [port |-> "status", p |-> PmtString("stopped")]
    /\ per_io.last.op = "work"

\* the gains and sequence numbers that occur in the sweeps of the model
SweepGains == -4..3
SweepSeqs == 0..3

\* the index of the last message before i posted on that port; 0 if none
LastBefore(posts, i, port) ==
    LET on == {j \in 1..(i - 1) : posts[j].port = port}
    IN  IF on = {} THEN 0 ELSE CHOOSE j \in on : \A k \in on : k <= j

FinishedReport ==
    /\ per.state = "Finished"
    /\ per_io.finished
    /\ per_io.posts # <<>>
    /\ per_io.posts[Len(per_io.posts)]
           = [port |-> "status",
              p |-> PmtString("finished:total="
                        \o to_string(Len(PostedOn(SweepPosts, "tx"))))]

\* C35: a Per block that is Running with gain_step > 0 and is not stopped
\* eventually posts "finished:total=N" on status, N being the number of
\* packets of the sweep, and sets io.finished; it posts nothing after that,
\* and a call of work on a block that is not Running posts nothing and asks
\* for no wake.
C35_SweepFinishes ==
    /\ (per.state = "Running" /\ per.config.gain_step > 0)
           ~> (per.state = "Idle" \/ FinishedReport)
    /\ [](per.state = "Finished" => FinishedReport)
    /\ [](per.state # "Running" =>
              /\ work(per).posts = <<>>
              /\ ~work(per).notify
              /\ ~work(per).finished)
    /\ [][(per_io'.last.op = "work" /\ per.state # "Running")
              => /\ per_io'.posts = per_io.posts
                 /\ ~per_io'.notify]_vars

\* the longest sweep of the model has finished: four levels of two packets
C35_Witness ==
    /\ FinishedReport
    /\ per.config = PerConfig(2, -1, 1, 2)
    /\ per.total_packets_sent = 8
    /\ ~per_io.notify

\* C37: with packets_per_gain >= 1, whenever work or ctrl has returned,
\* packets_sent_at_current_gain < packets_per_gain and
\* packets_sent_at_current_gain <= total_packets_sent; a start from Idle
\* sets both counters to 0 and current_gain to gain_start and posts that
\* gain, so a sweep started again after a stop begins at gain_start.
C37_Counters ==
    /\ [](per.config.packets_per_gain >= 1 =>
              /\ per.packets_sent_at_current_gain
                     < per.config.packets_per_gain
              /\ per.packets_sent_at_current_gain <= per.total_packets_sent)
    /\ [][(/\ per_io'.last.op = "ctrl"
           /\ per_io'.last.p \in StartPmts
           /\ per.state = "Idle")
              => /\ per'.packets_sent_at_current_gain = 0
                 /\ per'.total_packets_sent = 0
                 /\ per'.current_gain = per.config.gain_start
                 /\ per'.config = per.config
                 /\ per_io'.posts
                        = per_io.posts
                              \o <<[port |-> "gain",
                                    p |-> PmtF64(DisplayF64(
                                              per.config.gain_start))],
                                   Started_(per.config)>>]_vars

\* a sweep was stopped at its second level after three packets and has
\* been started again
C37_Witness ==
    /\ per.config = PerConfig(2, 0, 1, 2)
    /\ per.state = "Running"
    /\ per_io.last.op = "ctrl"
    /\ per_io.last.p = PmtString("start")
    /\ per.current_gain = 2
    /\ per.total_packets_sent = 0
    /\ PostedOn(per_io.posts, "tx")
           = <<PacketAt(2, 0), PacketAt(2, 1), PacketAt(1, 0)>>

\* the pieces of a string, joined
RECURSIVE Joined(_)
Joined(pieces) ==
    IF pieces = <<>> THEN "" ELSE Head(pieces) \o Joined(Tail(pieces))

\* the pattern with the decimal digits of k at each placeholder
Filled(pattern, k) ==
    Joined([i \in 1..Len(pattern) |->
                IF pattern[i] = Placeholder THEN to_string(k) ELSE pattern[i]])

\* C31: the k-th message of the periodic sender (k = 0, 1, ...) is the
\* pattern with every {seq} replaced by k in decimal, message k + 1 is
\* handed to handle.call only after the call for message k has returned,
\* and the target port has handled the payloads in that order, none left
\* out and none twice.
C31_PeriodicSender ==
    /\ [](\A k \in 1..Len(periodic.calls) :
              periodic.calls[k] = Filled(periodic.pattern, k - 1))
    /\ [](/\ Len(periodic.received) \in
                 {Len(periodic.calls) - 1, Len(periodic.calls)}
          /\ periodic.received
                 = SubSeq(periodic.calls, 1, Len(periodic.received))
          /\ periodic.seq <= Len(periodic.received))
    /\ [][Len(periodic'.calls) > Len(periodic.calls) =>
              /\ periodic.pc = "timer"
              /\ Len(periodic.calls) = periodic.seq
              /\ Len(periodic.received) = periodic.seq
              /\ Len(periodic'.calls) = periodic.seq + 1]_vars

\* eleven messages were handled, the last with a number of two digits
C31_Witness ==
    /\ periodic.pattern = <<Placeholder, "/", Placeholder>>
    /\ Len(periodic.received) = 11
    /\ periodic.received[1] = "0/0"
    /\ periodic.received[2] = "1/1"
    /\ periodic.received[11] = "10/10"
    /\ periodic.pc = "timer"

\* rx has just handled an F64
GainCommand ==
    /\ ncalls' = ncalls + 1
    /\ handled'.port = "rx"
    /\ handled'.p.tag = "F64"

\* C36: an F64 on rx is a gain command: it is sent on the gain channel when
\* one is set (and can be locked and received from), posted on rx_out as the
\* String "gain:<value>" and not as the F64, and answered Ok whether the
\* channel is set or not and whether the send and the post succeed or not
C36_GainCommand ==
    [][GainCommand =>
         /\ handled'.reply = PmtOk
         /\ handled'.posts = <<PmtString("gain:" \o handled'.p.val)>>
         /\ handled'.posts[1] # handled'.p
         /\ mio'.rx_out = IF handled'.post_ok
                          THEN mio.rx_out \o handled'.posts
                          ELSE mio.rx_out
         /\ IF GainChannelSet /\ GainLockOk /\ GainReceiverAlive
            THEN GAIN_CHANNEL' =
                     [GAIN_CHANNEL EXCEPT !.queue = @ \o <<handled'.p.val>>]
            ELSE GAIN_CHANNEL' = GAIN_CHANNEL]_vars

\* a gain went onto the channel and was answered Ok although its post failed
C36_Witness ==
    /\ handled.port = "rx"
    /\ handled.p = PmtF64("1.5")
    /\ ~handled.post_ok
    /\ handled.reply = PmtOk
    /\ GainChannelSet
    /\ GAIN_CHANNEL.queue = <<"1.5">>
    /\ mio.rx_out = <<>>

\* a gain was answered Ok with no gain channel set
GainWithoutChannel ==
    /\ handled.port = "rx"
    /\ handled.p.tag = "F64"
    /\ ~GainChannelSet
    /\ handled.reply = PmtOk
    /\ mio.rx_out = <<PmtString("gain:1.5")>>

\* a gain was answered Ok although the receiver of the channel is gone
GainSendFailed ==
    /\ handled.port = "rx"
    /\ handled.p.tag = "F64"
    /\ GainChannelSet
    /\ ~GAIN_CHANNEL.receiver_alive
    /\ GAIN_CHANNEL.queue = <<>>
    /\ handled.reply = PmtOk

\* a control message that is no String was answered with an error String
BadControlAnswered ==
    /\ handled.port = "control"
    /\ handled.p.tag = "F64"
    /\ handled.reply = PmtString("Error: Expected Pmt::String")
    /\ ControllerAlive

\* a path sent to a dropped receiver was answered with an error String
FailedSendAnswered ==
    /\ handled.port = "control"
    /\ handled.p.tag = "String"
    /\ RELOAD_CHANNEL # 0
    /\ ~poisoned
    /\ ~ReceiverAlive
    /\ handled.reply.tag = "String"
    /\ ControllerAlive

\* C38: no message makes a handler fail: control, tx and rx return a reply
\* value, Ok or a String, for every kind of PMT and every outcome of the
\* channel send and of the post, so the controller block is never ended by
\* a failed forward or a bad control message
C38_HandlersNeverFail ==
    /\ ControllerAlive
    /\ handled.port # "" => handled.reply.tag \in {"Ok", "String"}

\* a forward whose post failed was answered with an error String and the
\* controller is still there
C38_Witness ==
    /\ ncalls = 1
    /\ handled.port = "tx"
    /\ ~handled.post_ok
    /\ handled.reply = PmtString("Error forwarding: " \o PostError)
    /\ ControllerAlive

\* C39: the sender stored by set_reload_channel is never dropped, so the
\* listener thread's receive never reports disconnection and the thread
\* never leaves its loop through the disconnected branch
C39_SenderNeverDropped ==
    /\ reload_senders = 1
    /\ last_recv # "disconnected"
    /\ pc # "exited"

\* the receive came back with a timeout on an empty channel after a
\* flowgraph, its controller block included, had been replaced
C39_Witness ==
    /\ last_recv = "timeout"
    /\ reload_queue = <<>>
    /\ reload_senders = 1
    /\ Len(rt_graphs) >= 2
    /\ \E g \in GraphIds : rt_graphs[g].terminating

====
